---------------------------- MODULE Spec2Model ----------------------------
(***************************************************************************)
(* A model of the KFX-Highlights annotation engine:                        *)
(*   - the per-book extractors (extract_highlights_kfxlib.py,              *)
(*     extract_highlights_azw3.py, extract_highlights_mobi.py): position   *)
(*     parsing, the range sweep, note attachment, text location;           *)
(*   - the orchestrator (extract_highlights.py): the book registry         *)
(*     (.sync_state.json), incremental Kindle runs, Calibre processing.    *)
(*                                                                         *)
(* Text is a sequence of one-character strings.  Offsets are the 0-based   *)
(* offsets of the Python code; At(t, i) reads offset i of a sequence.      *)
(* Modification times are counted in half seconds (Tick), so 1.5 s and     *)
(* 2.5 s are the integers 3 and 5.                                         *)
(***************************************************************************)
EXTENDS Integers, Sequences, FiniteSets, TLC

VARIABLES
    \* ---- one extractor invocation (main() of an extract_highlights_*.py)
    fmt,            \* "kfx" | "azw3" | "mobi": which extractor runs
    annotations,    \* annotation.personal.highlight records
    notes,          \* annotation.personal.note records
    xpc,            \* position of main(): "start", "swept", "done"
    deduped,        \* the list kept by the sweep: <<s, e, ann>>
    items,          \* the emitted HighlightItems, in order
    \* ---- Content Locator, called on its own
    lpc,            \* "idle" | "ready" | "done"
    sections,       \* indexed content: [position, content, length]
    all_html,       \* flat buffer
    qstart, qend,   \* the query range
    snapped,        \* result of snap_to_tag_boundaries
    text,           \* result of extract_text / strip_html_tags
    \* ---- the orchestrator (extract_highlights.py) and its environment
    fs,             \* files of the script directory: "live" (.sync_state.json), "tmp"
    device,         \* the Kindle volume: per book stem, the files and their mtimes
    rpc,            \* position of the running orchestrator ("idle": none running)
    args,           \* command line of the run
    sync_state,     \* the in-memory registry of the run
    pairs,          \* (book, annotation) pairs still to handle
    unchanged_count,\* books skipped by filter_new_or_changed
    to_extract,     \* local copies queued by --import-book
    to_process,     \* matches queued by the Calibre mode
    failed,         \* names reported as failed
    drm_flagged,    \* names reported as DRM-protected
    pp,             \* the last process_pair call: arguments, raw counts, result
    upd,            \* the last _update_sync_record call: arguments, record before
    last_exit,      \* how the last run ended
    fresh_success,  \* history: what the last completed Kindle run recorded as success
    budget,         \* runs started and changes made by the environment so far
    \* ---- one batch of _run_extraction and the summary of main
    jobs,           \* args.jobs: 1 is the sequential loop, more the process pool
    futures,        \* per submitted pair: the pair, what its process_pair call
                    \* does, and "queued" | "running" | "done" | "applied"
    summary,        \* the summary main prints, None before
    saves,          \* save_sync_state calls of the run
    \* ---- the Library Matcher (match_calibre_books)
    calibre,        \* the rows of the Calibre library, in the order of the queries
    matching,       \* what match_calibre_books returned, None before
    \* ---- the Navigation Resolver (load_navigation, page_for_pid, find_section)
    npc,            \* "kfx" | "flat" (raw data), "loaded", "resolved"
    nav_data,       \* the navigation containers of the book, or its flat buffer
    nav_index,      \* [pages, toc] as built from nav_data
    nav_query,      \* the offset asked for
    nav_answer,     \* [page, section, chapter] of the query, None before
    \* ---- the output directory and the calls of _format_azw3_output
    output_dir,     \* output file name -> the books written to it, in order
    writers,        \* per call: the book, its position, the name it chose
    max_workers,    \* process_pair calls that may run at the same time
    \* ---- the Position Codec called on its own
    cpc,            \* "off" | "given" | "parsed" | "raised" | "written"
    pos_fmt,        \* the extractor whose parser is called
    pos_given,      \* the position string of the annotation record
    pos_offset,     \* the parsed offset, None before
    pos_location    \* the offset as written to the output, None before

xvars == <<fmt, annotations, notes, xpc, deduped, items>>
lvars == <<lpc, sections, all_html, qstart, qend, snapped, text>>
rvars == <<fs, device, rpc, args, sync_state, pairs, unchanged_count, to_extract,
           to_process, failed, drm_flagged, pp, upd, last_exit, fresh_success,
           budget>>
bvars == <<jobs, futures, summary, saves>>
mvars == <<calibre, matching>>
nvars == <<npc, nav_data, nav_index, nav_query, nav_answer>>
ovars == <<output_dir, writers, max_workers>>
cvars == <<cpc, pos_fmt, pos_given, pos_offset, pos_location>>
vars  == <<xvars, lvars, rvars, bvars, mvars, nvars, ovars, cvars>>

\* What an action of one component leaves alone: the other components.
LocatorFrame   == UNCHANGED <<xvars, rvars, bvars, mvars, nvars, ovars, cvars>>
ExtractorFrame == UNCHANGED <<lvars, rvars, bvars, mvars, nvars, ovars, cvars>>
RegistryFrame  == UNCHANGED <<xvars, lvars, bvars, mvars, nvars, ovars, cvars>>
BatchFrame     == UNCHANGED <<xvars, lvars, mvars, nvars, ovars, cvars>>
MatchFrame     == UNCHANGED <<xvars, lvars, bvars, nvars, ovars, cvars>>
NavFrame       == UNCHANGED <<xvars, lvars, rvars, bvars, mvars, ovars, cvars>>
OutputFrame    == UNCHANGED <<xvars, lvars, rvars, bvars, mvars, nvars, cvars>>
CodecFrame     == UNCHANGED <<xvars, lvars, rvars, bvars, mvars, nvars, ovars>>

---------------------------------------------------------------------------
(* Generic helpers                                                         *)

Min(S) == CHOOSE x \in S : \A y \in S : x <= y
Max(S) == CHOOSE x \in S : \A y \in S : y <= x

\* Python t[a:b] for 0 <= a, 0 <= b (offsets clamp to the length).
Slice(t, a, b) ==
    LET hi == IF b > Len(t) THEN Len(t) ELSE b
    IN  IF a >= hi THEN << >> ELSE SubSeq(t, a + 1, hi)

\* The byte at 0-based offset i ("" past the end, as t[i:i+1] gives).
At(t, i) == IF i >= 0 /\ i < Len(t) THEN t[i + 1] ELSE ""

\* Python t.find(c, from): the first offset >= from holding a member of cs, or -1.
Find(t, cs, from) ==
    LET hits == {i \in from .. (Len(t) - 1) : t[i + 1] \in cs}
    IN  IF hits = {} THEN -1 ELSE Min(hits)

\* Python t.rfind(c): the last offset holding a member of cs, or -1.
RFind(t, cs) ==
    LET hits == {i \in 0 .. (Len(t) - 1) : t[i + 1] \in cs}
    IN  IF hits = {} THEN -1 ELSE Max(hits)

Rep(c, n) == [i \in 1 .. n |-> c]

\* Characters str.split() and \s treat as whitespace (those of the modelled alphabet).
WhiteSpace == {" ", "\n", "\t"}


\* list.sort(key=K): stable, ascending.
StableSort(s, K(_)) ==
    LET n == Len(s)
        rank(i) == 1 + Cardinality({j \in 1 .. n :
                          \/ K(s[j]) < K(s[i])
                          \/ K(s[j]) = K(s[i]) /\ j < i})
    IN  [r \in 1 .. n |-> s[CHOOSE i \in 1 .. n : rank(i) = r]]

\* str.strip(): whitespace removed at both ends.
Strip(t) ==
    LET keep == {i \in 1 .. Len(t) : t[i] \notin WhiteSpace}
    IN  IF keep = {} THEN << >> ELSE SubSeq(t, Min(keep), Max(keep))

\* The concatenation of a sequence of sequences.
RECURSIVE Concat(_)
Concat(ss) == IF ss = << >> THEN << >> ELSE Head(ss) \o Concat(Tail(ss))

---------------------------------------------------------------------------
(* Content Locator, indexed strategy (extract_highlights_kfxlib.py)        *)

SecPos(e) == e.position

\* load_content_sections: the type-1 entries, sorted by position, each with
\* its length inferred from the next section's position (the last: its text).
load_content_sections(data) ==
    LET secs == StableSort(SelectSeq(data, LAMBDA e : e.type = 1), SecPos)
        n    == Len(secs)
    IN  [i \in 1 .. n |->
            [position |-> secs[i].position,
             content  |-> secs[i].content,
             length   |-> IF i < n THEN secs[i + 1].position - secs[i].position
                                   ELSE Len(secs[i].content)]]

\* A variant of SectionPart with the end offset exclusive (no "+ 1").
SectionPart_ExclusiveEnd(sec, start, end) ==
    LET sec_start   == sec.position
        sec_end     == sec_start + sec.length
        slice_start == IF start > sec_start THEN start ELSE sec_start
        slice_end   == IF end < sec_end THEN end ELSE sec_end
    IN  IF slice_end > slice_start
        THEN Slice(sec.content, slice_start - sec_start, slice_end - sec_start)
        ELSE << >>

\* The slice extract_text takes of one section: offsets max(start, sec_start)
\* up to min(end + 1, sec_end), relative to the section.
SectionPart(sec, start, end) ==
    LET sec_start   == sec.position
        sec_end     == sec_start + sec.length
        slice_start == IF start > sec_start THEN start ELSE sec_start
        slice_end   == IF end + 1 < sec_end THEN end + 1 ELSE sec_end
    IN  IF slice_end > slice_start
        THEN Slice(sec.content, slice_start - sec_start, slice_end - sec_start)
        ELSE << >>

\* extract_text(sections, start, end); idx counts from 1 here.
extract_text(secs, start, end) ==
    LET n     == Len(secs)
        \* first loop: advance while the next section starts at or before start
        stop1 == {i \in 1 .. n : i = n \/ secs[i + 1].position > start}
        idx   == IF n = 0 THEN 1 ELSE Min(stop1)
        \* second loop: run while the section starts before end
        stop2 == {j \in idx .. n : secs[j].position >= end}
        last  == IF stop2 = {} THEN n ELSE Min(stop2) - 1
        parts == [k \in 1 .. (IF last >= idx THEN last - idx + 1 ELSE 0) |->
                     SectionPart(secs[idx + k - 1], start, end)]
    IN  Strip(Concat(parts))

---------------------------------------------------------------------------
(* Content Locator, flat-buffer strategy (extract_highlights_azw3.py; the  *)
(* same two functions are repeated in extract_highlights_mobi.py)          *)

\* The offset the backward scan from `from` stops at: the nearest offset
\* below `from` holding '<' or '>', or -1 when the scan reaches offset 0.
ScanBack(buf, from) ==
    LET hits == {i \in 0 .. (from - 1) : At(buf, i) \in {"<", ">"}}
    IN  IF hits = {} THEN -1 ELSE Max(hits)

\* A variant of SnapStart that moves a start inside a tag back to the tag's '<'.
SnapStart_BackToTagOpen(buf, start) ==
    LET i == ScanBack(buf, start)
    IN  IF i >= 0 /\ At(buf, i) = "<" THEN i ELSE start

\* The start snap_to_tag_boundaries slices from.
SnapStart(buf, start) ==
    LET i  == ScanBack(buf, start)
        gt == Find(buf, {">"}, start)
    IN  IF i >= 0 /\ At(buf, i) = "<" /\ gt # -1 THEN gt + 1 ELSE start

\* The end snap_to_tag_boundaries slices to.
SnapEnd(buf, end) ==
    LET j == ScanBack(buf, end)
    IN  IF j >= 0 /\ At(buf, j) = "<" THEN j ELSE end

snap_to_tag_boundaries(buf, start, end) ==
    Slice(buf, SnapStart(buf, start), SnapEnd(buf, end))


\* Case folding of re.IGNORECASE, on the letters the patterns name.
Lower(c) ==
    CASE c = "B" -> "b" [] c = "R" -> "r" [] c = "P" -> "p" [] c = "D" -> "d"
      [] c = "I" -> "i" [] c = "V" -> "v" [] c = "H" -> "h" [] c = "L" -> "l"
      [] c = "T" -> "t" [] c = "O" -> "o" [] c = "C" -> "c" [] c = "K" -> "k"
      [] c = "Q" -> "q" [] c = "U" -> "u" [] c = "E" -> "e"
      [] OTHER -> c

LowerSeq(t) == [i \in 1 .. Len(t) |-> Lower(t[i])]

\* The names of r'</(p|div|h[1-6]|li|tr|blockquote)>'.
BlockNames ==
    { <<"p">>, <<"d", "i", "v">>, <<"l", "i">>, <<"t", "r">>,
      <<"b", "l", "o", "c", "k", "q", "u", "o", "t", "e">> }
    \cup { <<"h", d>> : d \in {"1", "2", "3", "4", "5", "6"} }

\* The first offset >= k that holds no whitespace (the length when none).
SkipWs(t, k) ==
    LET hits == {i \in k .. (Len(t) - 1) : t[i + 1] \notin WhiteSpace}
    IN  IF hits = {} THEN (IF k > Len(t) THEN k ELSE Len(t)) ELSE Min(hits)

\* Length of the match of r'<br\s*/?\s*>' at offset p (0: no match).
MatchBr(t, p) ==
    LET k1 == SkipWs(t, p + 3)
        k2 == IF At(t, k1) = "/" THEN k1 + 1 ELSE k1
        k3 == SkipWs(t, k2)
    IN  IF /\ At(t, p) = "<" /\ Lower(At(t, p + 1)) = "b"
           /\ Lower(At(t, p + 2)) = "r" /\ At(t, k3) = ">"
        THEN k3 + 1 - p ELSE 0

\* Length of the match of the block-level closing tag pattern at offset p.
MatchBlockClose(t, p) ==
    LET fits == {n \in BlockNames :
                    /\ LowerSeq(Slice(t, p + 2, p + 2 + Len(n))) = n
                    /\ At(t, p + 2 + Len(n)) = ">"}
    IN  IF At(t, p) = "<" /\ At(t, p + 1) = "/" /\ fits # {}
        THEN 3 + Len(CHOOSE n \in fits : TRUE) ELSE 0

\* Length of the match of r'<[^>]+>' at offset p.
MatchTag(t, p) ==
    LET gt == Find(t, {">"}, p + 1)
    IN  IF At(t, p) = "<" /\ At(t, p + 1) \notin {"", ">"} /\ gt # -1
        THEN gt + 1 - p ELSE 0

\* The entities of html.unescape that the modelled alphabet can spell:
\* &amp; &lt; &gt;, the final ';' optional as in HTML5.
EntityNames == { <<"a", "m", "p">>, <<"l", "t">>, <<"g", "t">> }
EntityChar(n) == IF n = <<"a", "m", "p">> THEN "&" ELSE IF n = <<"l", "t">> THEN "<" ELSE ">"
EntityAt(t, p) == {n \in EntityNames : Slice(t, p + 1, p + 1 + Len(n)) = n}
MatchEntity(t, p) ==
    LET fits == EntityAt(t, p)
        n    == CHOOSE n \in fits : TRUE
    IN  IF At(t, p) = "&" /\ fits # {}
        THEN 1 + Len(n) + (IF At(t, p + 1 + Len(n)) = ";" THEN 1 ELSE 0) ELSE 0

MatchLen(kind, t, p) ==
    CASE kind = "br"     -> MatchBr(t, p)
      [] kind = "close"  -> MatchBlockClose(t, p)
      [] kind = "tag"    -> MatchTag(t, p)
      [] kind = "entity" -> MatchEntity(t, p)

Replacement(kind, t, p) ==
    CASE kind \in {"br", "close"} -> <<"\n">>
      [] kind = "tag"    -> << >>
      [] kind = "entity" -> <<EntityChar(CHOOSE n \in EntityAt(t, p) : TRUE)>>

\* re.sub(pattern, repl, t): leftmost non-overlapping matches, scanning from offset i.
RECURSIVE ReSub(_, _, _)
ReSub(kind, t, i) ==
    LET p == Find(t, {IF kind = "entity" THEN "&" ELSE "<"}, i)
        m == MatchLen(kind, t, p)
    IN  IF p = -1 THEN Slice(t, i, Len(t))
        ELSE IF m > 0
             THEN Slice(t, i, p) \o Replacement(kind, t, p) \o ReSub(kind, t, p + m)
             ELSE Slice(t, i, p + 1) \o ReSub(kind, t, p + 1)

\* t.split(sep) for a one-character separator, scanning from offset i.
RECURSIVE SplitOn(_, _, _)
SplitOn(t, sep, i) ==
    LET p == Find(t, {sep}, i)
    IN  IF p = -1 THEN <<Slice(t, i, Len(t))>>
        ELSE <<Slice(t, i, p)>> \o SplitOn(t, sep, p + 1)

\* line.split(): the maximal runs of non-whitespace, scanning from offset i.
RECURSIVE Words(_, _)
Words(t, i) ==
    LET a == SkipWs(t, i)
        w == Find(t, WhiteSpace, a)
        b == IF w = -1 THEN Len(t) ELSE w
    IN  IF a >= Len(t) THEN << >> ELSE <<Slice(t, a, b)>> \o Words(t, b)

\* sep.join(parts)
RECURSIVE Join(_, _)
Join(parts, sep) ==
    IF parts = << >> THEN << >>
    ELSE IF Len(parts) = 1 THEN parts[1]
    ELSE parts[1] \o <<sep>> \o Join(Tail(parts), sep)

\* The two boundary clean-ups at the top of strip_html_tags.
CleanPartialStart(t) ==
    LET gt_pos == Find(t, {">"}, 0)
        lt_pos == Find(t, {"<"}, 0)
    IN  IF At(t, 0) # "<" /\ gt_pos # -1 /\ (lt_pos = -1 \/ lt_pos > gt_pos)
        THEN Slice(t, gt_pos + 1, Len(t)) ELSE t

CleanPartialEnd(t) ==
    LET last_lt == RFind(t, {"<"})
        last_gt == RFind(t, {">"})
    IN  IF last_lt # -1 /\ last_gt < last_lt THEN Slice(t, 0, last_lt) ELSE t

\* The whitespace normalisation at the end of strip_html_tags.
NormalizeLines(t) ==
    LET lines  == SplitOn(t, "\n", 0)
        joined == [k \in 1 .. Len(lines) |-> Join(Words(lines[k], 0), " ")]
    IN  Join(SelectSeq(joined, LAMBDA l : l # << >>), "\n")

strip_html_tags(html_bytes) ==
    LET t0 == CleanPartialEnd(CleanPartialStart(html_bytes))
        t1 == ReSub("br", t0, 0)
        t2 == ReSub("close", t1, 0)
        t3 == ReSub("tag", t2, 0)
        t4 == ReSub("entity", t3, 0)
    IN  Strip(NormalizeLines(t4))



---------------------------------------------------------------------------
(* main() of the extractors: positions, notes, the sweep, emission         *)

\* Python's None / a present value, for the optional fields of an item.
None    == << >>
Some(x) == <<x>>

DigitChars == <<"0", "1", "2", "3", "4", "5", "6", "7", "8", "9">>
DigitVal(c) == (CHOOSE k \in 1 .. 10 : DigitChars[k] = c) - 1

\* str(n) for n >= 0
RECURSIVE str(_)
str(n) ==
    IF n < 10 THEN <<DigitChars[n + 1]>>
    ELSE str(n \div 10) \o <<DigitChars[(n % 10) + 1]>>

\* int(t) for a string of decimal digits
RECURSIVE int(_)
int(t) ==
    IF Len(t) = 1 THEN DigitVal(t[1])
    ELSE 10 * int(SubSeq(t, 1, Len(t) - 1)) + DigitVal(t[Len(t)])

\* int(t) raises ValueError: t is not a string of decimal digits.
int_raises(t) ==
    t = << >> \/ \E i \in DOMAIN t : \A k \in DOMAIN DigitChars : DigitChars[k] # t[i]

\* A variant of parse_position: every extractor reads the second field.
parse_position_SecondField(f, pos_str) ==
    LET fields == SplitOn(pos_str, ":", 0)
    IN  IF Find(pos_str, {":"}, 0) # -1 THEN int(fields[2]) ELSE int(pos_str)

\* The offset of a position string, per extractor:
\*   kfx : int(s.split(":")[1])
\*   azw3: int(s.split(':')[1]) if ':' in s else int(s)
\*   mobi: int(s.split(':')[0]) if ':' in s else int(s)
parse_position(f, pos_str) ==
    LET fields == SplitOn(pos_str, ":", 0)
    IN  IF f = "kfx" THEN int(fields[2])
        ELSE IF f = "azw3"
             THEN (IF Find(pos_str, {":"}, 0) # -1 THEN int(fields[2]) ELSE int(pos_str))
        ELSE (IF Find(pos_str, {":"}, 0) # -1 THEN int(fields[1]) ELSE int(pos_str))

\* parse_position raises: ValueError of int(), or in the kfx extractor the
\* IndexError of split(":")[1] on a string without ":".
parse_position_raises(f, pos_str) ==
    LET fields == SplitOn(pos_str, ":", 0)
    IN  IF f = "kfx" THEN (IF Len(fields) < 2 THEN TRUE ELSE int_raises(fields[2]))
        ELSE IF f = "azw3"
             THEN (IF Find(pos_str, {":"}, 0) # -1 THEN int_raises(fields[2])
                   ELSE int_raises(pos_str))
        ELSE (IF Find(pos_str, {":"}, 0) # -1 THEN int_raises(fields[1])
              ELSE int_raises(pos_str))

\* The key under which a note is filed in notes_by_end: the kfx extractor
\* reads the note's startPosition, the azw3 and mobi extractors its endPosition.
NoteKey(f, n) ==
    IF f = "kfx" THEN int(SplitOn(n.startPosition, ":", 0)[2])
    ELSE parse_position(f, n.endPosition)

NoteKey_raises(f, n) ==
    parse_position_raises(f, IF f = "kfx" THEN n.startPosition ELSE n.endPosition)

\* A position main() parses does not parse: a note's key, a highlight's
\* start or end.
main_raises(f, anns, ns) ==
    \/ \E i \in DOMAIN ns : NoteKey_raises(f, ns[i])
    \/ \E i \in DOMAIN anns :
          \/ parse_position_raises(f, anns[i].startPosition)
          \/ parse_position_raises(f, anns[i].endPosition)

\* notes_by_end.get(pos, []): the texts of the notes filed under pos, in order.
notes_by_end(f, ns, pos) ==
    LET hit == SelectSeq(ns, LAMBDA n : NoteKey(f, n) = pos)
    IN  [i \in 1 .. Len(hit) |-> hit[i].note]

\* A variant of SweepStep that keeps every record.
SweepStep_KeepAll(kept, ann, f) ==
    Append(kept, <<parse_position(f, ann.startPosition),
                   parse_position(f, ann.endPosition), ann>>)

\* A variant of SweepStep without the replacement of a contained predecessor.
SweepStep_NoReplace(kept, ann, f) ==
    LET s == parse_position(f, ann.startPosition)
        e == parse_position(f, ann.endPosition)
        n == Len(kept)
    IN  IF n > 0 /\ s >= kept[n][1] /\ e <= kept[n][2] THEN kept
        ELSE Append(kept, <<s, e, ann>>)

\* One iteration of the sweep loop: ann against the last kept entry.
SweepStep(kept, ann, f) ==
    LET s == parse_position(f, ann.startPosition)
        e == parse_position(f, ann.endPosition)
        n == Len(kept)
    IN  IF n > 0 /\ s >= kept[n][1] /\ e <= kept[n][2] THEN kept
        ELSE IF n > 0 /\ kept[n][1] >= s /\ kept[n][2] <= e
             THEN [kept EXCEPT ![n] = <<s, e, ann>>]
        ELSE Append(kept, <<s, e, ann>>)

\* The sweep over the sorted annotations.
RECURSIVE Sweep(_, _, _)
Sweep(anns, f, kept) ==
    IF anns = << >> THEN kept
    ELSE Sweep(Tail(anns), f, SweepStep(kept, Head(anns), f))

\* A variant of SortByStart: the records stay in the order of the file.
SortByStart_FileOrder(anns, f) == anns

\* annotations.sort(key=start offset)
SortByStart(anns, f) ==
    LET key(a) == parse_position(f, a.startPosition)
    IN  StableSort(anns, key)

\* Length of the match of rb'<mbp:pagebreak\s*/?\s*>' at offset p (0: none).
MatchPageBreak(t, p) ==
    LET name == <<"<", "m", "b", "p", ":", "p", "a", "g", "e", "b", "r", "e", "a", "k">>
        k1   == SkipWs(t, p + Len(name))
        k2   == IF At(t, k1) = "/" THEN k1 + 1 ELSE k1
        k3   == SkipWs(t, k2)
    IN  IF Slice(t, p, p + Len(name)) = name /\ At(t, k3) = ">"
        THEN k3 + 1 - p ELSE 0

\* build_page_map: <<offset, label>> per page break, labels "1", "2", ...
build_page_map(buf) ==
    LET offs == {p \in 0 .. (Len(buf) - 1) : buf[p + 1] = "<" /\ MatchPageBreak(buf, p) > 0}
        nth(i) == CHOOSE p \in offs : Cardinality({q \in offs : q < p}) = i - 1
    IN  [i \in 1 .. Cardinality(offs) |-> <<nth(i), str(i)>>]

\* page_for_offset / page_for_pid: the label of the last entry of the leading
\* run of entries at or before the offset.
page_for_offset(pages, offset) ==
    LET stop == {i \in 1 .. Len(pages) : pages[i][1] > offset}
        n    == IF stop = {} THEN Len(pages) ELSE Min(stop) - 1
    IN  IF n = 0 THEN None ELSE Some(pages[n][2])

\* The last entry of the leading run of toc entries at or before pid, if any.
LastAtOrBefore(toc, pid) ==
    LET stop == {i \in 1 .. Len(toc) : toc[i].pid > pid}
    IN  IF stop = {} THEN Len(toc) ELSE Min(stop) - 1

\* find_section(pid): <<section label, chapter label>>
find_section(toc, pid) ==
    LET si == LastAtOrBefore(toc, pid)
        ch == IF si = 0 THEN << >> ELSE toc[si].children
        ci == LastAtOrBefore(ch, pid)
    IN  <<IF si = 0 THEN None ELSE Some(toc[si].label),
          IF ci = 0 THEN None ELSE Some(ch[ci].label)>>

\* One entry of the kept list turned into output items: the highlight item,
\* then one note item per note filed under the highlight's end offset.  The
\* azw3 and mobi extractors skip an entry whose located text is empty.
ItemsFor(f, d, ns, secs, buf, pages, toc) ==
    LET start == d[1]
        end   == d[2]
        ann   == d[3]
        txt   == IF f = "kfx" THEN extract_text(secs, start, end)
                 ELSE strip_html_tags(snap_to_tag_boundaries(buf, start, end))
        page  == page_for_offset(pages, start)
        sc    == IF f = "kfx" THEN find_section(toc, start) ELSE <<None, None>>
        nts   == notes_by_end(f, ns, end)
        item(time, body, kind) ==
            [creationTime |-> time, text |-> body, page |-> page,
             location |-> start, section |-> sc[1], chapter |-> sc[2],
             type |-> kind]
    IN  IF f # "kfx" /\ txt = << >> THEN << >>
        ELSE <<item(ann.creationTime, txt, "highlight")>>
             \o [i \in 1 .. Len(nts) |-> item(<< >>, nts[i], "note")]

\* The emission loop over the kept list.
EmitItems(f, kept, ns, secs, buf, pages, toc) ==
    Concat([i \in 1 .. Len(kept) |-> ItemsFor(f, kept[i], ns, secs, buf, pages, toc)])

---------------------------------------------------------------------------
(* The book registry (.sync_state.json) and the orchestrator's functions   *)

\* 2.0 seconds, the tolerance of filter_new_or_changed, in half seconds.
TwoSeconds == 4

\* Book stems of the Kindle volume (the registry keys) and the paths the
\* volume is mounted at.
StemOrder == <<"Design_B000SEIBB8">>
Stems  == {StemOrder[i] : i \in DOMAIN StemOrder}
Mounts == {"/Volumes/Kindle", "/Volumes/Kindle 1"}

\* Annotation sidecars a book's .sdr folder may offer as the best match.
Sidecars == {"azw3r", "azw3f"}

\* Paths, by their components.  The stem of a book path is its last component;
\* an annotation path ends with the stem and the sidecar.
DeviceBook(mount, stem)   == <<mount, "documents", stem>>
DeviceAnn(mount, stem, a) == <<mount, "documents", stem, a>>
InputBook(stem)           == <<"input", stem>>
InputAnn(stem, a)         == <<"input", stem, a>>
PendingAnn(stem, a)       == <<"input/pending", stem, a>>
CalibreBook(stem)         == <<"calibre", stem>>
PathStem(book)            == book[Len(book)]
AnnStem(ann)              == ann[Len(ann) - 1]
AnnSidecar(ann)           == ann[Len(ann)]

\* st_mtime of a path (None: OSError).  A local copy carries the mtime of its
\* source (shutil.copy2); a Calibre book file is not a device file.
Stat(dev, p) ==
    IF p[1] = "calibre" THEN None
    ELSE IF p[1] \in Mounts
         THEN (IF Len(p) = 3 THEN dev[p[3]].book_mtime
               ELSE IF dev[p[3]].ann = p[4] THEN dev[p[3]].ann_mtime ELSE None)
    ELSE (IF Len(p) = 2 THEN dev[p[2]].book_mtime
          ELSE IF dev[AnnStem(p)].ann = AnnSidecar(p) THEN dev[AnnStem(p)].ann_mtime
          ELSE None)

\* dict.get(key, default) on an optional field
Get(o, default) == IF o = None THEN default ELSE o[1]

\* A registry record: every key of the JSON object, None when not set.
RecordFields ==
    {"kindle_kfx_path", "kindle_yjr_path", "kfx_mtime", "yjr_mtime", "status",
     "last_attempt", "error", "local_kfx_path", "local_yjr_path", "highlights",
     "notes", "calibre_kfx_path", "calibre_title", "file_missing"}
NoRecord == [f \in RecordFields |-> None]

\* datetime.now(timezone.utc).isoformat(): the value is not modelled.
Timestamp == "ts"

\* The registry load_sync_state starts from when there is nothing to read.
FreshState == [version |-> 1, last_sync |-> None, books |-> [s \in Stems |-> NoRecord]]

\* A file of the script directory: absent, a complete JSON text of a state,
\* a truncated JSON text, text that is not JSON, bytes that do not decode
\* in the locale's encoding, or a file that cannot be opened.
FileKinds == {"absent", "json", "partial", "malformed", "undecodable", "unreadable"}
File(kind, st) == [kind |-> kind, state |-> st]
AbsentFile == File("absent", FreshState)

\* load_sync_state: json.JSONDecodeError and OSError are caught; the
\* UnicodeDecodeError of undecodable bytes is neither.
load_sync_state(file) ==
    IF file.kind = "json" THEN [raised |-> "", state |-> file.state]
    ELSE IF file.kind = "undecodable"
         THEN [raised |-> "UnicodeDecodeError", state |-> FreshState]
    ELSE [raised |-> "", state |-> FreshState]

Abs(x) == IF x < 0 THEN 0 - x ELSE x

\* A variant of WithinTolerance with the tolerance itself included.
WithinTolerance_Inclusive(current, stored) == Abs(current - stored) <= TwoSeconds

\* abs(current - stored) < 2.0
WithinTolerance(current, stored) == Abs(current - stored) < TwoSeconds

\* The decision filter_new_or_changed takes for one pair: TRUE when the
\* book is skipped as unchanged.
is_unchanged(record, book_mtime, ann_mtime, metadata_only) ==
    IF record = NoRecord THEN FALSE
    ELSE IF ann_mtime = None THEN FALSE
    ELSE IF record.status = Some("success")
         THEN /\ book_mtime # None
              /\ WithinTolerance(book_mtime[1], Get(record.kfx_mtime, 0))
              /\ WithinTolerance(ann_mtime[1], Get(record.yjr_mtime, 0))
    ELSE IF metadata_only /\ record.status = Some("metadata-only")
         THEN WithinTolerance(ann_mtime[1], Get(record.yjr_mtime, 0))
    ELSE FALSE

\* filter_new_or_changed: <<filtered pairs, skipped count>>
filter_new_or_changed(prs, state, dev, metadata_only) ==
    LET skip(pr) == is_unchanged(state.books[PathStem(pr.book)],
                                 Stat(dev, pr.book), Stat(dev, pr.ann), metadata_only)
        kept == SelectSeq(prs, LAMBDA pr : ~skip(pr))
    IN  <<kept, Len(prs) - Len(kept)>>

\* A variant of IsDeviceSource that takes every source for the device's.
IsDeviceSource_Always(record, kfx) == TRUE

\* _update_sync_record's test for "processing from the Kindle directly":
\* no device book path recorded yet, or the book path equals the recorded one.
IsDeviceSource(record, kfx) ==
    record.kindle_kfx_path = None \/ Some(kfx) = record.kindle_kfx_path

\* A variant of update_sync_record that starts the books map afresh and
\* keeps the one record it writes.
update_sync_record_Alone(books, dev, kfx, yjr, status, error, local_kfx, local_yjr, highlights, nnotes) ==
    [s \in DOMAIN books |->
        IF s = PathStem(kfx)
        THEN [NoRecord EXCEPT !.kindle_kfx_path = Some(kfx),
                              !.kindle_yjr_path = Some(yjr),
                              !.status = Some(status),
                              !.last_attempt = Some(Timestamp),
                              !.error = error]
        ELSE NoRecord]

\* _update_sync_record: the books map with the record of kfx's stem updated.
\* Optional arguments are None when not passed.
update_sync_record(books, dev, kfx, yjr, status, error, local_kfx, local_yjr, highlights, nnotes) ==
    LET stem   == PathStem(kfx)
        record == books[stem]
        r0 == [record EXCEPT !.kindle_kfx_path = Some(kfx),
                             !.kindle_yjr_path = Some(yjr)]
        \* kfx.stat() then yjr.stat(); an OSError leaves what was not yet set
        r1 == IF ~IsDeviceSource(record, kfx) THEN record
              ELSE IF Stat(dev, kfx) = None THEN r0
              ELSE IF Stat(dev, yjr) = None
                   THEN [r0 EXCEPT !.kfx_mtime = Stat(dev, kfx)]
              ELSE [r0 EXCEPT !.kfx_mtime = Stat(dev, kfx),
                              !.yjr_mtime = Stat(dev, yjr)]
        r2 == [r1 EXCEPT
                 !.status         = Some(status),
                 !.last_attempt   = Some(Timestamp),
                 !.error          = error,
                 !.local_kfx_path = IF local_kfx # None THEN local_kfx ELSE @,
                 !.local_yjr_path = IF local_yjr # None THEN local_yjr ELSE @,
                 !.highlights     = IF highlights # None THEN highlights ELSE @,
                 !.notes          = IF nnotes # None THEN nnotes ELSE @]
    IN  [books EXCEPT ![stem] = r2]

\* process_pair: krds, the count of the annotation cache, the extractor.
\*   krds_ok    : krds.py exits 0
\*   raw        : <<highlights, notes>> counted in the krds JSON
\*   returncode : exit code of the extractor
\*   stderr_drm : "DRM" in result.stderr
\*   saved      : None, or Some(<<n, m>>) read from the extractor's output
\*   os_error   : a step of the pipeline raises an exception that is neither
\*                CalledProcessError nor DRMError (OSError of
\*                output_dir.mkdir, of the spawn of the extractor, ...)
process_pair(krds_ok, raw, returncode, stderr_drm, saved, os_error) ==
    IF os_error
    THEN [result |-> "OSError", highlights |-> None, notes |-> None]
    ELSE IF ~krds_ok
    THEN [result |-> "CalledProcessError", highlights |-> None, notes |-> None]
    ELSE IF returncode = 0
    THEN [result |-> "ok",
          highlights |-> Some(IF saved # None THEN saved[1][1] ELSE raw[1]),
          notes      |-> Some(IF saved # None THEN saved[1][2] ELSE raw[2])]
    ELSE IF stderr_drm
    THEN [result |-> "DRMError", highlights |-> Some(raw[1]), notes |-> Some(raw[2])]
    ELSE [result |-> "CalledProcessError", highlights |-> None, notes |-> None]

KindleModes == {"default", "import-only", "import-book", "import-metadata"}
Statuses    == {"success", "drm-flagged", "failed", "imported", "metadata-only"}

NoCall == [fn |-> "none"]

\* No batch submitted.
BatchIdle == jobs = 1 /\ futures = << >> /\ summary = << >> /\ saves = 0

\* No library queried.
MatchIdle == calibre = << >> /\ matching = << >>

\* No navigation data loaded.
NavIdle ==
    /\ npc = "off" /\ nav_data = << >> /\ nav_index = << >>
    /\ nav_query = 0 /\ nav_answer = << >>

\* No output written.
OutputIdle == output_dir = << >> /\ writers = << >> /\ max_workers = 0

\* No position string parsed on its own.
CodecIdle ==
    /\ cpc = "off" /\ pos_fmt = "none" /\ pos_given = << >>
    /\ pos_offset = << >> /\ pos_location = << >>

\* No orchestrator running, nothing in memory.
RunIdle ==
    /\ rpc = "idle"
    /\ args = [mode |-> "none", reprocess |-> FALSE, mount |-> "none",
               all_books |-> FALSE, accept_fuzzy |-> FALSE]
    /\ sync_state = FreshState
    /\ pairs = << >> /\ unchanged_count = 0
    /\ to_extract = << >> /\ to_process = << >>
    /\ failed = << >> /\ drm_flagged = << >>

\* The registry component unused by a specification.
RegistryIdle ==
    /\ RunIdle
    /\ fs = [f \in {"live", "tmp"} |-> AbsentFile]
    /\ device = [s \in Stems |-> [book_mtime |-> None, ann |-> "azw3r",
                                  ann_mtime |-> None, calibre_file |-> FALSE]]
    /\ pp = NoCall /\ upd = NoCall
    /\ last_exit = "none"
    /\ fresh_success = [stems |-> {}, mount |-> "none", phase |-> "prev"]
    /\ budget = [runs |-> 0, events |-> 0]
    /\ BatchIdle /\ MatchIdle

---------------------------------------------------------------------------
(* The Library Matcher: extract_asin, build_calibre_index,                  *)
(* fuzzy_match_title, match_calibre_books.  A book key and an identifier    *)
(* are sequences of characters; a similarity ratio is in hundredths.        *)

UpperLetters ==
    <<"A", "B", "C", "D", "E", "F", "G", "H", "I", "J", "K", "L", "M",
      "N", "O", "P", "Q", "R", "S", "T", "U", "V", "W", "X", "Y", "Z">>
LowerLetters ==
    <<"a", "b", "c", "d", "e", "f", "g", "h", "i", "j", "k", "l", "m",
      "n", "o", "p", "q", "r", "s", "t", "u", "v", "w", "x", "y", "z">>
\* The class [A-Z0-9] of _ASIN_RE.
AsinChars ==
    {UpperLetters[k] : k \in DOMAIN UpperLetters}
        \cup {DigitChars[k] : k \in DOMAIN DigitChars}

\* The {10,} of _ASIN_RE.
AsinMinLen == 10

\* str.upper().
upper(s) ==
    [i \in DOMAIN s |->
        IF \E k \in DOMAIN LowerLetters : LowerLetters[k] = s[i]
        THEN UpperLetters[CHOOSE k \in DOMAIN LowerLetters : LowerLetters[k] = s[i]]
        ELSE s[i]]

\* extract_asin: _ASIN_RE.search(stem), r'_([A-Z0-9]{10,})$'.
extract_asin(stem) ==
    LET starts == {i \in DOMAIN stem :
                      /\ stem[i] = "_"
                      /\ Len(stem) - i >= AsinMinLen
                      /\ \A j \in (i + 1) .. Len(stem) : stem[j] \in AsinChars}
    IN  IF starts = {} THEN None
        ELSE Some(SubSeq(stem, Min(starts) + 1, Len(stem)))

\* build_calibre_index.  A row of the library is a book: its title, its
\* mobi-asin identifier if it has one, whether a file of a supported format
\* is there (has_copy), and score, the SequenceMatcher ratio of its title
\* with the title of the candidate.
AsinRows(cat, asin) ==
    {i \in DOMAIN cat : cat[i].asin # None /\ upper(cat[i].asin[1]) = asin}

\* asin_to_title[asin]: the last row with the identifier.
asin_to_title(cat, asin) ==
    IF AsinRows(cat, asin) = {} THEN None ELSE Some(cat[Max(AsinRows(cat, asin))])

\* A variant of asin_to_book that compares the identifiers of the library
\* as they are stored.
asin_to_book_CaseSensitive(cat, asin) ==
    LET rows == {i \in DOMAIN cat : cat[i].asin = Some(asin) /\ cat[i].has_copy}
    IN  IF rows = {} THEN None ELSE Some(cat[Max(rows)])

\* asin_to_book[asin]: the last row with the identifier whose book has a copy.
asin_to_book(cat, asin) ==
    LET rows == {i \in AsinRows(cat, asin) : cat[i].has_copy}
    IN  IF rows = {} THEN None ELSE Some(cat[Max(rows)])

\* title_index: the books with a copy, then the books with an identifier
\* and no copy.
HasCopy(row) == row.has_copy
AsinOnly(row) == ~row.has_copy /\ row.asin # None
title_index(cat) == SelectSeq(cat, HasCopy) \o SelectSeq(cat, AsinOnly)

\* "best_score >= threshold", and a variant that rejects the threshold
\* itself.
MeetsThreshold_Exclusive(score, threshold) == score > threshold
MeetsThreshold(score, threshold) == score >= threshold

\* threshold=0.80 of fuzzy_match_title.
Threshold == 80

\* fuzzy_match_title: the first row of the largest ratio, when that ratio is
\* more than 0 and reaches the threshold.
fuzzy_match_title(index, threshold) ==
    LET best_score == IF index = << >> THEN 0
                      ELSE Max({index[i].score : i \in DOMAIN index})
        best == Min({i \in DOMAIN index : index[i].score = best_score})
    IN  IF best_score > 0 /\ MeetsThreshold(best_score, threshold)
        THEN Some([title |-> index[best].title, has_kfx |-> index[best].has_copy,
                   score |-> best_score])
        ELSE None

\* "asin and asin in asin_to_title", and a variant that never finds the
\* identifier among the books without a copy.
KnownWithoutCopy_Never(cat, asin) == FALSE
KnownWithoutCopy(cat, asin) == asin # None /\ asin_to_title(cat, asin[1]) # None

\* The body of the loop of match_calibre_books for one candidate: the list
\* the candidate is appended to and the entry appended; fuzzy_called tells
\* whether fuzzy_match_title was called.  yjr_path is what
\* find_annotation_for_stem returns.
MatchOne(stem, cat, yjr_path) ==
    LET asin == extract_asin(stem)
        fuzzy == fuzzy_match_title(title_index(cat), Threshold)
    IN  IF asin # None /\ asin_to_book(cat, asin[1]) # None
        THEN [list |-> IF yjr_path # None THEN "matched" ELSE "no_yjr",
              stem |-> stem, asin |-> asin,
              calibre_title |-> asin_to_book(cat, asin[1])[1].title,
              yjr_path |-> yjr_path, fuzzy |-> FALSE, score |-> Some(100),
              fuzzy_called |-> FALSE]
        ELSE IF KnownWithoutCopy(cat, asin)
        THEN [list |-> "matched_no_kfx", stem |-> stem, asin |-> asin,
              calibre_title |-> asin_to_title(cat, asin[1])[1].title,
              yjr_path |-> None, fuzzy |-> FALSE, score |-> None,
              fuzzy_called |-> FALSE]
        ELSE IF fuzzy # None /\ fuzzy[1].has_kfx
        THEN [list |-> IF yjr_path # None THEN "matched" ELSE "no_yjr",
              stem |-> stem, asin |-> asin, calibre_title |-> fuzzy[1].title,
              yjr_path |-> yjr_path, fuzzy |-> TRUE, score |-> Some(fuzzy[1].score),
              fuzzy_called |-> TRUE]
        ELSE IF fuzzy # None
        THEN [list |-> "matched_no_kfx", stem |-> stem, asin |-> asin,
              calibre_title |-> fuzzy[1].title, yjr_path |-> None,
              fuzzy |-> TRUE, score |-> Some(fuzzy[1].score), fuzzy_called |-> TRUE]
        ELSE [list |-> "unmatched", stem |-> stem, asin |-> asin,
              calibre_title |-> "", yjr_path |-> None, fuzzy |-> TRUE,
              score |-> None, fuzzy_called |-> TRUE]

eligible_statuses_Always(all_books) ==
    {"drm-flagged", "metadata-only", "success", "imported", "failed"}

eligible_statuses(all_books) ==
    IF all_books
    THEN {"drm-flagged", "metadata-only", "success", "imported", "failed"}
    ELSE {"drm-flagged", "metadata-only"}

\* find_annotation_for_stem: the recorded local copy if it is there, else the
\* recorded device file if it is there (local_there, volume_there: is_file()).
find_annotation_for_stem(record, local_there, volume_there) ==
    IF record.local_yjr_path # None /\ local_there THEN record.local_yjr_path
    ELSE IF record.kindle_yjr_path # None /\ volume_there THEN record.kindle_yjr_path
    ELSE None

\* The keys of the registry the matcher is asked about, in sorted() order:
\* no suffix, a suffix of 8 characters, an identifier, a lowercase suffix.
KeyPlain == <<"D", "e", "s", "i", "g", "n">>
KeyShort == KeyPlain \o <<"_", "B", "0", "0", "0", "S", "E", "I", "B">>
KeyAsin  == KeyPlain \o <<"_", "B", "0", "0", "0", "S", "E", "I", "B", "B", "8">>
KeyLower == KeyPlain \o <<"_", "b", "0", "0", "0", "s", "e", "i", "b", "b", "8">>
MatchKeyOrder == <<KeyPlain, KeyShort, KeyAsin, KeyLower>>
MatchKeys == {MatchKeyOrder[i] : i \in DOMAIN MatchKeyOrder}

\* match_calibre_books(sync_state, calibre_path, script_dir, all_books): the
\* four lists it returns.
IsMatched(r)     == r.list = "matched"
IsMatchedNoKfx(r) == r.list = "matched_no_kfx"
IsUnmatched(r)   == r.list = "unmatched"
IsNoYjr(r)       == r.list = "no_yjr"
match_calibre_books(books, cat, all_books, local_there, volume_there) ==
    LET candidate(k) ==
            /\ k \in DOMAIN books
            /\ books[k].status # None
            /\ books[k].status[1] \in eligible_statuses(all_books)
        candidates == SelectSeq(MatchKeyOrder, candidate)
        results == [i \in DOMAIN candidates |->
                       MatchOne(candidates[i], cat,
                                find_annotation_for_stem(books[candidates[i]],
                                                         local_there, volume_there))]
    IN  [matched        |-> SelectSeq(results, IsMatched),
         matched_no_kfx |-> SelectSeq(results, IsMatchedNoKfx),
         unmatched      |-> SelectSeq(results, IsUnmatched),
         no_yjr         |-> SelectSeq(results, IsNoYjr)]

---------------------------------------------------------------------------
(* Bounds of the model                                                     *)

MaxSections == 3     \* entries of the decoded content of a Locator query
MaxOffset   == 6     \* largest offset of a Locator query on indexed content
MaxBuf      == 3     \* length of the enumerated flat buffers
MaxAnn      == 3     \* highlight records of an extractor run
MaxNotes    == 1     \* note records of an extractor run
MaxTick     == 5     \* largest mtime (half seconds) given to filter_new_or_changed
MaxTouches  == 1     \* times a file of the Kindle volume is written again
MaxCount    == 1     \* highlight / note records of an annotation cache
MaxRuns     == 3     \* runs of the orchestrator in a behaviour
MaxEvents   == 1     \* changes made by the environment in a behaviour
MaxJobs     == 2     \* largest --jobs of a batch
MaxRows     == 2     \* books of the Calibre library

\* All sequences over S of length at most n.
SeqsUpTo(S, n) == UNION {[1 .. k -> S] : k \in 0 .. n}

---------------------------------------------------------------------------
(* Specification SpecLocate: the Content Locator called on bounded inputs  *)

\* b"xx<b>HELLO</b>yy"
HelloBuffer ==
    <<"x", "x", "<", "b", ">", "H", "E", "L", "L", "O", "<", "/", "b", ">", "y", "y">>

\* Entries of the decoded content ("data" of convert_to_json_content): text
\* entries (type 1), among them one whose text is longer than the gap to the
\* next position and starts with a blank, and one entry of another type.
DataEntries ==
    { [type |-> 1, position |-> p, content |-> c] :
          p \in {0, 2, 4}, c \in { <<"A", "B">>, <<"C", "D">>, <<"E", "F">> } }
    \cup { [type |-> 1, position |-> 3, content |-> <<" ", "G", "H">>] }
    \cup { [type |-> 2, position |-> 0, content |-> <<"Z", "Z">>] }

FlatAlphabet == {"<", ">", "/", "p", "a", " "}
FlatBuffers  == {HelloBuffer} \cup SeqsUpTo(FlatAlphabet, MaxBuf)

ExtractorIdle ==
    /\ fmt = "none" /\ annotations = << >> /\ notes = << >>
    /\ xpc = "off" /\ deduped = << >> /\ items = << >>

LocatorIdle ==
    /\ lpc = "off" /\ sections = << >> /\ all_html = << >>
    /\ qstart = 0 /\ qend = 0 /\ snapped = << >> /\ text = << >>

LocateInit ==
    /\ ExtractorIdle /\ RegistryIdle /\ NavIdle /\ OutputIdle /\ CodecIdle
    /\ snapped = << >> /\ text = << >>
    /\ \/ /\ lpc = "indexed"
          /\ sections \in SeqsUpTo(DataEntries, MaxSections)
          /\ all_html = << >>
          /\ qstart \in 0 .. MaxOffset /\ qend \in qstart .. MaxOffset
       \/ /\ lpc = "flat"
          /\ sections = << >>
          /\ all_html \in FlatBuffers
          /\ qstart \in 0 .. Len(all_html) /\ qend \in qstart .. Len(all_html)

\* load_content_sections(kfx_file)
LoadSections ==
    /\ lpc = "indexed"
    /\ sections' = load_content_sections(sections)
    /\ lpc' = "loaded"
    /\ UNCHANGED <<all_html, qstart, qend, snapped, text>>
    /\ LocatorFrame

\* text = extract_text(sections, start, end)
ExtractText ==
    /\ lpc = "loaded"
    /\ text' = extract_text(sections, qstart, qend)
    /\ lpc' = "done_indexed"
    /\ UNCHANGED <<sections, all_html, qstart, qend, snapped>>
    /\ LocatorFrame

\* highlight_html = snap_to_tag_boundaries(all_html, start, end)
Snap ==
    /\ lpc = "flat"
    /\ snapped' = snap_to_tag_boundaries(all_html, qstart, qend)
    /\ lpc' = "snapped"
    /\ UNCHANGED <<sections, all_html, qstart, qend, text>>
    /\ LocatorFrame

\* text = strip_html_tags(highlight_html)
StripTags ==
    /\ lpc = "snapped"
    /\ text' = strip_html_tags(snapped)
    /\ lpc' = "done_flat"
    /\ UNCHANGED <<sections, all_html, qstart, qend, snapped>>
    /\ LocatorFrame

LocateNext == LoadSections \/ ExtractText \/ Snap \/ StripTags

SpecLocate == LocateInit /\ [][LocateNext]_vars

---------------------------------------------------------------------------
(* Specification SpecExtract: one extractor run on a fixed book            *)

\* The book of the runs.  Flat formats: 211 bytes with two page breaks, a
\* blank stretch at offsets 100..119 and a <b> element at 177..200.
BookHtml ==
    Rep("a", 50)
    \o <<"<", "m", "b", "p", ":", "p", "a", "g", "e", "b", "r", "e", "a", "k", "/", ">">>
    \o Rep("b", 34) \o Rep(" ", 20) \o Rep("c", 10)
    \o <<"<", "m", "b", "p", ":", "p", "a", "g", "e", "b", "r", "e", "a", "k", "/", ">">>
    \o Rep("c", 31) \o <<"<", "b", ">">> \o Rep("d", 17) \o <<"<", "/", "b", ">">>
    \o Rep("e", 10)

\* Indexed format: the decoded content entries of the same book.
BookData ==
    << [type |-> 1, position |-> 100, content |-> Rep(" ", 20)],
       [type |-> 1, position |-> 0,   content |-> Rep("a", 100)],
       [type |-> 2, position |-> 50,  content |-> Rep("z", 5)],
       [type |-> 1, position |-> 120, content |-> Rep("c", 60)],
       [type |-> 1, position |-> 180, content |-> Rep("d", 30)] >>

BookSections == load_content_sections(BookData)

\* Navigation of the indexed book, as load_navigation returns it.
BookPages == << <<0, <<"1">>>>, <<150, <<"2">>>> >>
BookToc ==
    << [pid |-> 0, label |-> <<"S", "1">>,
        children |-> << [pid |-> 0,   label |-> <<"C", "1">>],
                        [pid |-> 120, label |-> <<"C", "2">>] >>],
       [pid |-> 180, label |-> <<"S", "2">>, children |-> << >>] >>

FlatPages == build_page_map(BookHtml)

\* Offsets the annotation records of the runs refer to.
Offsets         == {100, 120, 180, 200}
HighlightRanges == {r \in Offsets \X Offsets : r[1] < r[2]}
NoteRanges      == {r \in Offsets \X Offsets : r[1] <= r[2]}

\* The shapes of position strings a format's annotation files carry.
PositionForms(f) ==
    IF f = "kfx" THEN {"prefixed"}
    ELSE IF f = "azw3" THEN {"plain", "prefixed"}
    ELSE {"plain", "fields"}

PosStr(form, n) ==
    IF form = "plain" THEN str(n)
    ELSE IF form = "prefixed" THEN <<"A", "d", ":">> \o str(n)
    ELSE str(n) \o <<":", "0", ":", "9", ":", "Q">>

\* A position string of the form whose offset field is not a number.
BadPosStr(form) ==
    IF form = "plain" THEN <<"x">>
    ELSE IF form = "prefixed" THEN <<"A", "d", ":", "x">>
    ELSE <<"x", ":", "0", ":", "9", ":", "Q">>

\* The records of an annotation file that may carry such a position: none,
\* the last highlight (its end), the last note (start and end).
Malformed(hs, ns) ==
    {"none"} \cup (IF hs # << >> THEN {"highlight"} ELSE {})
             \cup (IF ns # << >> THEN {"note"} ELSE {})

ExtractInit ==
    /\ LocatorIdle /\ RegistryIdle /\ NavIdle /\ OutputIdle /\ CodecIdle
    /\ fmt \in {"kfx", "azw3", "mobi"}
    /\ \E form \in PositionForms(fmt) :
       \E hs \in SeqsUpTo(HighlightRanges, MaxAnn) :
       \E ns \in SeqsUpTo(NoteRanges, MaxNotes) :
       \E mal \in Malformed(hs, ns) :
          /\ annotations =
                [i \in 1 .. Len(hs) |->
                    [startPosition |-> PosStr(form, hs[i][1]),
                     endPosition   |-> IF mal = "highlight" /\ i = Len(hs)
                                       THEN BadPosStr(form)
                                       ELSE PosStr(form, hs[i][2]),
                     creationTime  |-> <<"t">> \o str(i)]]
          /\ notes =
                [i \in 1 .. Len(ns) |->
                    [startPosition |-> IF mal = "note" /\ i = Len(ns)
                                       THEN BadPosStr(form)
                                       ELSE PosStr(form, ns[i][1]),
                     endPosition   |-> IF mal = "note" /\ i = Len(ns)
                                       THEN BadPosStr(form)
                                       ELSE PosStr(form, ns[i][2]),
                     note          |-> <<"n">> \o str(i)]]
    /\ xpc = "start" /\ deduped = << >> /\ items = << >>

\* "if not annotations and not notes": nothing to do, empty result.
NoAnnotations ==
    /\ xpc = "start"
    /\ annotations = << >> /\ notes = << >>
    /\ xpc' = "done"
    /\ UNCHANGED <<fmt, annotations, notes, deduped, items>>
    /\ ExtractorFrame

\* A position does not parse: the exception leaves main() and the
\* extractor ends with a traceback and a non-zero exit code.
RaiseError ==
    /\ xpc = "start"
    /\ ~(annotations = << >> /\ notes = << >>)
    /\ main_raises(fmt, annotations, notes)
    /\ xpc' = "raised"
    /\ UNCHANGED <<fmt, annotations, notes, deduped, items>>
    /\ ExtractorFrame

\* Sort by start offset, then sweep.
Reconcile ==
    /\ xpc = "start"
    /\ ~(annotations = << >> /\ notes = << >>)
    /\ ~main_raises(fmt, annotations, notes)
    /\ annotations' = SortByStart(annotations, fmt)
    /\ deduped' = Sweep(annotations', fmt, << >>)
    /\ xpc' = "swept"
    /\ UNCHANGED <<fmt, notes, items>>
    /\ ExtractorFrame

\* The emission loop.
Emit ==
    /\ xpc = "swept"
    /\ items' = EmitItems(fmt, deduped, notes, BookSections, BookHtml,
                          IF fmt = "kfx" THEN BookPages ELSE FlatPages, BookToc)
    /\ xpc' = "done"
    /\ UNCHANGED <<fmt, annotations, notes, deduped>>
    /\ ExtractorFrame

ExtractNext == NoAnnotations \/ RaiseError \/ Reconcile \/ Emit

SpecExtract == ExtractInit /\ [][ExtractNext]_vars



---------------------------------------------------------------------------
(* Claims about the Content Locator (checked under SpecLocate)             *)

\* Sections [(0,"AB"), (2,"CD"), (4,"EF")] as load_content_sections returns them.
ExampleSections ==
    << [position |-> 0, content |-> <<"A", "B">>, length |-> 2],
       [position |-> 2, content |-> <<"C", "D">>, length |-> 2],
       [position |-> 4, content |-> <<"E", "F">>, length |-> 2] >>

ExampleQuery == lpc = "done_indexed" /\ sections = ExampleSections /\ qstart = 1 /\ qend = 5

\* The text of one section at the offsets start..end (both included), for a
\* section that starts before end; stated on offsets, not on slices.
RestrictedText(sec, start, end) ==
    LET idx == {i \in 1 .. Len(sec.content) :
                   /\ i <= sec.length
                   /\ sec.position + i - 1 >= start
                   /\ sec.position + i - 1 <= end}
    IN  IF sec.position < end /\ idx # {}
        THEN [j \in 1 .. Cardinality(idx) |-> sec.content[Min(idx) + j - 1]]
        ELSE << >>

\* C3 as stated: the example query returns "BCDE".
C3_Original == ExampleQuery => text = <<"B", "C", "D", "E">>

\* C3, amended: extract_text returns the whitespace-trimmed concatenation, in
\* section order, of the text of every section that starts before end,
\* restricted to the offsets start..end with the end offset included; for
\* sections [(0,"AB"), (2,"CD"), (4,"EF")] and range (1,5) that is "BCDEF".
C3_IndexedLocator ==
    /\ lpc = "done_indexed" =>
          text = Strip(Concat([k \in 1 .. Len(sections) |->
                                  RestrictedText(sections[k], qstart, qend)]))
    /\ ExampleQuery => text = <<"B", "C", "D", "E", "F">>

C3_Witness == ExampleQuery /\ text = <<"B", "C", "D", "E", "F">>

HelloQuery == all_html = HelloBuffer /\ qstart = 3 /\ qend = 14

\* C4 as stated: the snapped slice is "<b>HELLO</b>" and strips to "HELLO".
C4_Original ==
    /\ lpc \in {"snapped", "done_flat"} /\ HelloQuery =>
          snapped = <<"<", "b", ">", "H", "E", "L", "L", "O", "<", "/", "b", ">">>
    /\ lpc = "done_flat" /\ HelloQuery => text = <<"H", "E", "L", "L", "O">>

\* C4, amended: on b"xx<b>HELLO</b>yy" with raw slice (3, 14) the start, which
\* lies inside "<b>", is advanced past its '>' and the end, which lies just
\* after "</b>", stays: snap_to_tag_boundaries returns "HELLO</b>", and
\* strip_html_tags of that result is "HELLO".
C4_SnapHello ==
    /\ lpc \in {"snapped", "done_flat"} /\ HelloQuery =>
          snapped = <<"H", "E", "L", "L", "O", "<", "/", "b", ">">>
    /\ lpc = "done_flat" /\ HelloQuery => text = <<"H", "E", "L", "L", "O">>

C4_Witness ==
    lpc = "done_flat" /\ HelloQuery /\ text = <<"H", "E", "L", "L", "O">>
       /\ snapped = <<"H", "E", "L", "L", "O", "<", "/", "b", ">">>

---------------------------------------------------------------------------
(* The orchestrator's steps (main, Kindle mode), shared by the             *)
(* specifications below                                                    *)

\* find_kindle_pairs: every book of the volume with its best annotation
\* file, in the sorted order of the scan.
find_kindle_pairs(mount, dev) ==
    [i \in 1 .. Len(StemOrder) |->
        [book |-> DeviceBook(mount, StemOrder[i]),
         ann  |-> DeviceAnn(mount, StemOrder[i], dev[StemOrder[i]].ann)]]

\* main, Kindle mode: "if args.reprocess: unchanged_count = 0 else
\* filter_new_or_changed(...)".
FilterPairs ==
    /\ rpc = "scanned"
    /\ LET res == filter_new_or_changed(pairs, sync_state, device,
                                        args.mode = "import-metadata")
       IN  IF args.reprocess
           THEN pairs' = pairs /\ unchanged_count' = 0
           ELSE pairs' = res[1] /\ unchanged_count' = res[2]
    /\ rpc' = "filtered"
    /\ UNCHANGED <<fs, device, args, sync_state, to_extract, to_process, failed,
                   drm_flagged, pp, upd, last_exit, fresh_success>>
    /\ RegistryFrame /\ UNCHANGED budget

---------------------------------------------------------------------------
(* Specification SpecFilter: filter_new_or_changed on bounded inputs       *)

\* A stored or current mtime: not there, or a number of half seconds.
MtimeInputs == {None} \cup {Some(t) : t \in 0 .. MaxTick}

FilterInit ==
    /\ ExtractorIdle /\ LocatorIdle
    /\ rpc = "scanned"
    /\ \E mode \in KindleModes, reprocess \in BOOLEAN :
          args = [mode |-> mode, reprocess |-> reprocess, mount |-> "/Volumes/Kindle",
                  all_books |-> FALSE, accept_fuzzy |-> FALSE]
    /\ \E recs \in [Stems -> {"none"} \cup Statuses] :
       \E km \in [Stems -> MtimeInputs], ym \in [Stems -> MtimeInputs] :
          sync_state =
             [FreshState EXCEPT !.books =
                 [s \in Stems |->
                     IF recs[s] = "none" THEN NoRecord
                     ELSE [NoRecord EXCEPT
                             !.status = Some(recs[s]),
                             !.last_attempt = Some(Timestamp),
                             !.kindle_kfx_path = Some(DeviceBook("/Volumes/Kindle", s)),
                             !.kindle_yjr_path = Some(DeviceAnn("/Volumes/Kindle", s, "azw3r")),
                             !.kfx_mtime = km[s],
                             !.yjr_mtime = ym[s]]]]
    /\ \E bm \in [Stems -> MtimeInputs], am \in [Stems -> MtimeInputs] :
          device = [s \in Stems |-> [book_mtime |-> bm[s], ann |-> "azw3r",
                                     ann_mtime |-> am[s], calibre_file |-> FALSE]]
    /\ pairs = find_kindle_pairs("/Volumes/Kindle", device)
    /\ fs = [f \in {"live", "tmp"} |-> AbsentFile]
    /\ unchanged_count = 0
    /\ to_extract = << >> /\ to_process = << >>
    /\ failed = << >> /\ drm_flagged = << >>
    /\ pp = NoCall /\ upd = NoCall
    /\ last_exit = "none"
    /\ fresh_success = [stems |-> {}, mount |-> "none", phase |-> "prev"]
    /\ budget = [runs |-> 0, events |-> 0]
    /\ BatchIdle /\ MatchIdle /\ NavIdle /\ OutputIdle /\ CodecIdle

FilterNext == FilterPairs

SpecFilter == FilterInit /\ [][FilterNext]_vars

---------------------------------------------------------------------------
(* Specification SpecSync: runs of the orchestrator against one script     *)
(* directory, a Kindle volume and a Calibre library                        *)

\* Resolution of the mtimes of the Kindle's FAT32 volume: 2 s, in half seconds.
FatResolution == 4

\* The mtimes a file of the volume can get when it is written again.
LaterMtimes(t) ==
    {u \in (t + 1) .. (FatResolution * MaxTouches) : u % FatResolution = 0}
VolumeMtimes == {u \in 0 .. (FatResolution * MaxTouches) : u % FatResolution = 0}

\* Counts of the annotation cache, and what an extractor may report as saved.
RawCounts == (0 .. MaxCount) \X (0 .. MaxCount)
SavedCounts(raw) ==
    {None} \cup {Some(<<h, n>>) : h \in 0 .. raw[1], n \in 0 .. raw[2]}

IdleArgs ==
    [mode |-> "none", reprocess |-> FALSE, mount |-> "none",
     all_books |-> FALSE, accept_fuzzy |-> FALSE]
NoFresh == [stems |-> {}, mount |-> "none", phase |-> "prev"]

SyncInit ==
    /\ ExtractorIdle /\ LocatorIdle
    /\ RunIdle
    /\ fs = [f \in {"live", "tmp"} |-> AbsentFile]
    /\ device = [s \in Stems |-> [book_mtime |-> Some(0), ann |-> "azw3f",
                                  ann_mtime |-> Some(0), calibre_file |-> FALSE]]
    /\ pp = NoCall /\ upd = NoCall
    /\ last_exit = "none"
    /\ fresh_success = NoFresh
    /\ budget = [runs |-> 0, events |-> 0]
    /\ BatchIdle /\ MatchIdle /\ NavIdle /\ OutputIdle /\ CodecIdle

\* The process ends: sys.exit, an uncaught exception, or a kill.
ExitRun(how) ==
    /\ rpc' = "idle"
    /\ last_exit' = how
    /\ args' = IdleArgs
    /\ sync_state' = FreshState
    /\ pairs' = << >> /\ unchanged_count' = 0
    /\ to_extract' = << >> /\ to_process' = << >>
    /\ failed' = << >> /\ drm_flagged' = << >>
    /\ pp' = NoCall /\ upd' = NoCall

\* ---- the environment, between runs

\* The Kindle writes a book file or an annotation file again.
TouchBook ==
    /\ rpc = "idle" /\ budget.events < MaxEvents
    /\ budget' = [budget EXCEPT !.events = @ + 1]
    /\ \E s \in Stems : \E u \in LaterMtimes(device[s].book_mtime[1]) :
          /\ device' = [device EXCEPT ![s].book_mtime = Some(u)]
          /\ fresh_success' = [fresh_success EXCEPT !.stems = @ \ {s}]
    /\ UNCHANGED <<fs, rpc, args, sync_state, pairs, unchanged_count, to_extract,
                   to_process, failed, drm_flagged, pp, upd, last_exit>>
    /\ RegistryFrame

TouchAnnotation ==
    /\ rpc = "idle" /\ budget.events < MaxEvents
    /\ budget' = [budget EXCEPT !.events = @ + 1]
    /\ \E s \in Stems : \E u \in LaterMtimes(device[s].ann_mtime[1]) :
          /\ device' = [device EXCEPT ![s].ann_mtime = Some(u)]
          /\ fresh_success' = [fresh_success EXCEPT !.stems = @ \ {s}]
    /\ UNCHANGED <<fs, rpc, args, sync_state, pairs, unchanged_count, to_extract,
                   to_process, failed, drm_flagged, pp, upd, last_exit>>
    /\ RegistryFrame

\* Another sidecar of the .sdr folder becomes the best annotation match.
ChangeSidecar ==
    /\ rpc = "idle" /\ budget.events < MaxEvents
    /\ budget' = [budget EXCEPT !.events = @ + 1]
    /\ \E s \in Stems : \E a \in Sidecars \ {device[s].ann} : \E u \in VolumeMtimes :
          /\ device' = [device EXCEPT ![s].ann = a, ![s].ann_mtime = Some(u)]
          /\ fresh_success' = [fresh_success EXCEPT !.stems = @ \ {s}]
    /\ UNCHANGED <<fs, rpc, args, sync_state, pairs, unchanged_count, to_extract,
                   to_process, failed, drm_flagged, pp, upd, last_exit>>
    /\ RegistryFrame

\* A book file appears in, or disappears from, the Calibre library.
ChangeLibrary ==
    /\ rpc = "idle" /\ budget.events < MaxEvents
    /\ budget' = [budget EXCEPT !.events = @ + 1]
    /\ \E s \in Stems :
          device' = [device EXCEPT ![s].calibre_file = ~@]
    /\ UNCHANGED <<fs, rpc, args, sync_state, pairs, unchanged_count, to_extract,
                   to_process, failed, drm_flagged, pp, upd, last_exit, fresh_success>>
    /\ RegistryFrame

\* Something other than the orchestrator damages or removes the store.
DamageStore ==
    /\ rpc = "idle" /\ budget.events < MaxEvents
    /\ budget' = [budget EXCEPT !.events = @ + 1]
    /\ \E k \in {"absent", "malformed", "undecodable", "unreadable"} :
          /\ fs["live"].kind # k
          /\ fs' = [fs EXCEPT !["live"] = File(k, FreshState)]
    /\ fresh_success' = NoFresh
    /\ UNCHANGED <<device, rpc, args, sync_state, pairs, unchanged_count, to_extract,
                   to_process, failed, drm_flagged, pp, upd, last_exit>>
    /\ RegistryFrame

\* ---- a run: command line, load, scan, filter

\* The command lines of a run.
RunArgs ==
    {[mode |-> mode, reprocess |-> reprocess, mount |-> mount,
      all_books |-> FALSE, accept_fuzzy |-> FALSE] :
        mode \in KindleModes, reprocess \in BOOLEAN, mount \in Mounts}
    \cup
    {[mode |-> "calibre", reprocess |-> FALSE, mount |-> "none",
      all_books |-> all_books, accept_fuzzy |-> accept_fuzzy] :
        all_books \in BOOLEAN, accept_fuzzy \in BOOLEAN}

\* main up to the filter: parse_args, sync_state = load_sync_state(script_dir)
\* (an exception ends the run), then run_calibre_matching in Calibre mode,
\* else pairs = find_kindle_pairs(args.kindle) (no pairs: exit 0).
StartRun ==
    /\ rpc = "idle" /\ budget.runs < MaxRuns
    /\ budget' = [budget EXCEPT !.runs = @ + 1]
    /\ \E a \in RunArgs :
          LET r     == load_sync_state(fs["live"])
              found == find_kindle_pairs(a.mount, device)
          IN  IF r.raised # ""
              THEN /\ ExitRun("traceback")
                   /\ fresh_success' = NoFresh
              ELSE IF a.mode # "calibre" /\ found = << >>
              THEN /\ ExitRun("ok")
                   /\ fresh_success' = fresh_success
              ELSE /\ args' = a
                   /\ sync_state' = r.state
                   /\ pairs' = IF a.mode = "calibre" THEN << >> ELSE found
                   /\ rpc' = IF a.mode = "calibre" THEN "match" ELSE "scanned"
                   /\ fresh_success' = IF a.mode = "calibre" THEN NoFresh
                                       ELSE fresh_success
                   /\ last_exit' = "none"
                   /\ UNCHANGED <<unchanged_count, to_extract, to_process, failed,
                                  drm_flagged, pp, upd>>
    /\ UNCHANGED <<fs, device>>
    /\ RegistryFrame

\* "if not pairs: Nothing new to process, exit 0", else on to the mode's work.
Dispatch ==
    /\ rpc = "filtered"
    /\ IF pairs = << >>
       THEN ExitRun("ok")
       ELSE /\ rpc' = "process"
            /\ UNCHANGED <<args, sync_state, pairs, unchanged_count, to_extract,
                           to_process, failed, drm_flagged, pp, upd, last_exit>>
    /\ UNCHANGED <<fs, device, fresh_success>>
    /\ RegistryFrame /\ UNCHANGED budget

\* ---- a run: the work of each mode

\* What a failing extractor writes to its stderr: the message of kfxlib for
\* encrypted content, or another error.
ErrorTexts == {"DRMError: book has DRM", "ValueError: bad header"}

\* "DRM" in (result.stderr or ""), on the texts above.
HasDRM(stderr) == stderr = "DRMError: book has DRM"

\* The inputs of one process_pair call that the environment decides, one
\* for each outcome: krds fails; the extractor exits 0 and reports its counts
\* or not; it fails with or without "DRM" in its stderr; a step of the
\* pipeline raises OSError.
ProcessInputs ==
    {[krds_ok |-> FALSE, raw |-> <<0, 0>>, returncode |-> 0, stderr |-> "",
      saved |-> None, os_error |-> FALSE]}
    \cup {[krds_ok |-> TRUE, raw |-> <<0, 0>>, returncode |-> 0, stderr |-> "",
           saved |-> None, os_error |-> TRUE]}
    \cup UNION { {[krds_ok |-> TRUE, raw |-> raw, returncode |-> 0,
                   stderr |-> "", saved |-> sv, os_error |-> FALSE] :
                      sv \in SavedCounts(raw)} :
                 raw \in RawCounts }
    \cup {[krds_ok |-> TRUE, raw |-> raw, returncode |-> 1, stderr |-> e,
           saved |-> None, os_error |-> FALSE] : raw \in RawCounts, e \in ErrorTexts}

CallProcessPair(inp) ==
    process_pair(inp.krds_ok, inp.raw, inp.returncode, HasDRM(inp.stderr), inp.saved,
                 inp.os_error)

\* An exception nothing catches leaves main: the run ends with a traceback,
\* before save_sync_state.
AbortRun ==
    /\ ExitRun("traceback")
    /\ fresh_success' = NoFresh
    /\ UNCHANGED <<fs, device>>

\* What pp and upd remember of a call.
ProcessCall(book, ann, inp, res) ==
    [fn |-> "process_pair", book |-> book, ann |-> ann, raw |-> inp.raw,
     result |-> res.result]
UpdateCall(kfx, yjr, status) ==
    [fn |-> "_update_sync_record", kfx |-> kfx, yjr |-> yjr, status |-> status,
     before |-> sync_state.books[PathStem(kfx)]]

\* History of what the run in progress has recorded as success.
NoteOutcome(s, success) ==
    LET cur == IF fresh_success.phase = "cur" THEN fresh_success.stems ELSE {}
    IN  [stems |-> IF success THEN cur \cup {s} ELSE cur \ {s},
         mount |-> args.mount, phase |-> "cur"]

\* The position after one element of a queue has been handled.
AfterQueue(rest, then) == IF rest = << >> THEN then ELSE rpc

\* --import-metadata: copy the annotation file to input/pending/.
ImportMetadata ==
    /\ rpc = "process" /\ args.mode = "import-metadata"
    /\ LET pr == Head(pairs)
           s  == PathStem(pr.book)
       IN  \E copied \in BOOLEAN :
             IF copied
             THEN /\ sync_state' = [sync_state EXCEPT !.books =
                        update_sync_record(@, device, pr.book, pr.ann, "metadata-only",
                            None, None, Some(PendingAnn(s, AnnSidecar(pr.ann))), None, None)]
                  /\ upd' = UpdateCall(pr.book, pr.ann, "metadata-only")
                  /\ fresh_success' = NoteOutcome(s, FALSE)
                  /\ failed' = failed
             ELSE /\ failed' = Append(failed, s)
                  /\ UNCHANGED <<sync_state, upd, fresh_success>>
    /\ pairs' = Tail(pairs)
    /\ rpc' = AfterQueue(Tail(pairs), "save")
    /\ UNCHANGED <<fs, device, args, unchanged_count, to_extract, to_process,
                   drm_flagged, pp, last_exit>>
    /\ RegistryFrame /\ UNCHANGED budget

\* --import-only: copy book and annotation file to input/.
ImportOnly ==
    /\ rpc = "process" /\ args.mode = "import-only"
    /\ LET pr == Head(pairs)
           s  == PathStem(pr.book)
       IN  \E copied \in BOOLEAN :
             IF copied
             THEN /\ sync_state' = [sync_state EXCEPT !.books =
                        update_sync_record(@, device, pr.book, pr.ann, "imported", None,
                            Some(InputBook(s)), Some(InputAnn(s, AnnSidecar(pr.ann))),
                            None, None)]
                  /\ upd' = UpdateCall(pr.book, pr.ann, "imported")
                  /\ fresh_success' = NoteOutcome(s, FALSE)
                  /\ failed' = failed
             ELSE /\ failed' = Append(failed, s)
                  /\ UNCHANGED <<sync_state, upd, fresh_success>>
    /\ pairs' = Tail(pairs)
    /\ rpc' = AfterQueue(Tail(pairs), "save")
    /\ UNCHANGED <<fs, device, args, unchanged_count, to_extract, to_process,
                   drm_flagged, pp, last_exit>>
    /\ RegistryFrame /\ UNCHANGED budget

\* --import-book, first loop: copy, record "imported", queue the copies.
ImportBookCopy ==
    /\ rpc = "process" /\ args.mode = "import-book"
    /\ LET pr == Head(pairs)
           s  == PathStem(pr.book)
       IN  \E copied \in BOOLEAN :
             /\ IF copied
                THEN /\ sync_state' = [sync_state EXCEPT !.books =
                           update_sync_record(@, device, pr.book, pr.ann, "imported", None,
                               Some(InputBook(s)), Some(InputAnn(s, AnnSidecar(pr.ann))),
                               None, None)]
                     /\ upd' = UpdateCall(pr.book, pr.ann, "imported")
                     /\ fresh_success' = NoteOutcome(s, FALSE)
                     /\ to_extract' = Append(to_extract,
                           [book |-> InputBook(s), ann |-> InputAnn(s, AnnSidecar(pr.ann))])
                     /\ failed' = failed
                ELSE /\ failed' = Append(failed, s)
                     /\ UNCHANGED <<sync_state, upd, fresh_success, to_extract>>
             /\ rpc' = IF Tail(pairs) # << >> THEN rpc
                       ELSE IF to_extract' # << >> THEN "extract" ELSE "save"
    /\ pairs' = Tail(pairs)
    /\ UNCHANGED <<fs, device, args, unchanged_count, to_process, drm_flagged, pp,
                   last_exit>>
    /\ RegistryFrame /\ UNCHANGED budget

\* A variant of OutcomeStatus that leaves a failed book to be retried.
OutcomeStatus_Retry(result) ==
    IF result = "ok" THEN "success"
    ELSE IF result = "DRMError" THEN "drm-flagged" ELSE "pending"

\* The status _run_extraction records for the result of a process_pair call.
OutcomeStatus(result) ==
    IF result = "ok" THEN "success"
    ELSE IF result = "DRMError" THEN "drm-flagged" ELSE "failed"

\* A variant of OutcomeError that records no error for a failed book.
OutcomeError_Dropped(result) ==
    IF result = "DRMError" THEN Some("DRM-protected") ELSE None

\* The error _run_extraction records: none, "DRM-protected", or
\* f"exit code {e.returncode}" (the extractor of the model exits with 1).
OutcomeError(result) ==
    IF result = "ok" THEN None
    ELSE IF result = "DRMError" THEN Some("DRM-protected")
    ELSE Some("exit code 1")

\* What _run_extraction does with the result of one process_pair call, in
\* the sequential loop and in the as_completed loop alike.
ApplyOutcome(kfx, yjr, res) ==
    LET status == OutcomeStatus(res.result)
        error  == OutcomeError(res.result)
    IN  /\ sync_state' = [sync_state EXCEPT !.books =
              update_sync_record(@, device, kfx, yjr, status, error, None, None,
                                 res.highlights, res.notes)]
        /\ upd' = UpdateCall(kfx, yjr, status)
        /\ drm_flagged' = IF res.result = "DRMError"
                          THEN Append(drm_flagged, PathStem(kfx)) ELSE drm_flagged
        /\ failed' = IF res.result = "CalledProcessError"
                     THEN Append(failed, PathStem(kfx)) ELSE failed
        /\ fresh_success' = NoteOutcome(PathStem(kfx), res.result = "ok")

\* One iteration of _run_extraction (jobs = 1) on the pair (kfx, yjr).
RunExtractionStep(kfx, yjr, inp) ==
    LET res == CallProcessPair(inp)
    IN  /\ pp' = ProcessCall(kfx, yjr, inp, res)
        /\ ApplyOutcome(kfx, yjr, res)

\* --import-book, second part: _run_extraction on the local copies.
ExtractLocal ==
    /\ rpc = "extract"
    /\ \E inp \in ProcessInputs :
          IF CallProcessPair(inp).result = "OSError"
          THEN AbortRun
          ELSE /\ RunExtractionStep(Head(to_extract).book, Head(to_extract).ann, inp)
               /\ to_extract' = Tail(to_extract)
               /\ rpc' = AfterQueue(Tail(to_extract), "save")
               /\ UNCHANGED <<fs, device, args, pairs, unchanged_count, to_process,
                              last_exit>>
    /\ RegistryFrame /\ UNCHANGED budget

\* Default mode: the pairs whose record names a Calibre copy that exists
\* (calibre_pairs), handled before the others (kindle_pairs).
HasCalibreCopy(pr) ==
    /\ sync_state.books[PathStem(pr.book)].calibre_kfx_path # None
    /\ device[PathStem(pr.book)].calibre_file
calibre_pairs == SelectSeq(pairs, HasCalibreCopy)
kindle_pairs  == SelectSeq(pairs, LAMBDA pr : ~HasCalibreCopy(pr))

\* Default mode, one iteration of the calibre_pairs loop.
ProcessViaCalibre ==
    /\ rpc = "process" /\ args.mode = "default"
    /\ calibre_pairs # << >>
    /\ LET pr == Head(calibre_pairs)
           s  == PathStem(pr.book)
           record == sync_state.books[s]
       IN  \E inp \in ProcessInputs :
             LET res == CallProcessPair(inp)
             IN  IF res.result = "OSError" THEN AbortRun ELSE
                 /\ pp' = ProcessCall(Get(record.calibre_kfx_path, << >>), pr.ann, inp, res)
                 /\ IF res.result = "ok"
                    THEN /\ sync_state' = [sync_state EXCEPT !.books[s] =
                               [record EXCEPT
                                  !.status = Some("success"),
                                  !.last_attempt = Some(Timestamp),
                                  !.error = None,
                                  !.kindle_kfx_path = Some(pr.book),
                                  !.kindle_yjr_path = Some(pr.ann),
                                  !.kfx_mtime = Stat(device, pr.book),
                                  !.yjr_mtime = Stat(device, pr.ann),
                                  !.file_missing = None,
                                  !.highlights = res.highlights,
                                  !.notes = res.notes]]
                         /\ upd' = NoCall
                         /\ UNCHANGED <<drm_flagged, failed>>
                    ELSE IF res.result = "DRMError"
                    THEN /\ sync_state' = [sync_state EXCEPT !.books =
                               update_sync_record(@, device, pr.book, pr.ann, "drm-flagged",
                                   Some("DRM-protected"), None, None,
                                   res.highlights, res.notes)]
                         /\ upd' = UpdateCall(pr.book, pr.ann, "drm-flagged")
                         /\ drm_flagged' = Append(drm_flagged, s)
                         /\ failed' = failed
                    ELSE /\ sync_state' = [sync_state EXCEPT !.books =
                               update_sync_record(@, device, pr.book, pr.ann, "failed",
                                   Some("exit code 1"), None, None, None, None)]
                         /\ upd' = UpdateCall(pr.book, pr.ann, "failed")
                         /\ failed' = Append(failed, s)
                         /\ drm_flagged' = drm_flagged
                 /\ fresh_success' = NoteOutcome(s, res.result = "ok")
                 /\ pairs' = SelectSeq(pairs, LAMBDA q : q # pr)
                 /\ rpc' = AfterQueue(SelectSeq(pairs, LAMBDA q : q # pr), "save")
                 /\ UNCHANGED <<fs, device, args, unchanged_count, to_extract,
                                to_process, last_exit>>
    /\ RegistryFrame /\ UNCHANGED budget

\* Default mode: _run_extraction on the kindle_pairs, in place on the volume.
ProcessInPlace ==
    /\ rpc = "process" /\ args.mode = "default"
    /\ calibre_pairs = << >> /\ kindle_pairs # << >>
    /\ \E inp \in ProcessInputs :
          IF CallProcessPair(inp).result = "OSError"
          THEN AbortRun
          ELSE /\ RunExtractionStep(Head(kindle_pairs).book, Head(kindle_pairs).ann, inp)
               /\ pairs' = Tail(kindle_pairs)
               /\ rpc' = AfterQueue(Tail(kindle_pairs), "save")
               /\ UNCHANGED <<fs, device, args, unchanged_count, to_extract, to_process,
                              last_exit>>
    /\ RegistryFrame /\ UNCHANGED budget

\* ---- a run: save_sync_state and the end of main

\* save_sync_state as one step (the steps inside it are those of SpecSave),
\* then the end of the run: exit 1 when a Kindle run has failures, else 0.
SaveState ==
    /\ rpc = "save"
    /\ fs' = [fs EXCEPT !["live"] =
                 File("json", [sync_state EXCEPT !.last_sync = Some(Timestamp)])]
    /\ ExitRun(IF args.mode # "calibre" /\ failed # << >> THEN "fail" ELSE "ok")
    /\ fresh_success' =
          IF args.mode # "calibre" /\ fresh_success.phase = "cur"
          THEN [fresh_success EXCEPT !.phase = "prev"] ELSE NoFresh
    /\ UNCHANGED device
    /\ RegistryFrame /\ UNCHANGED budget

\* ---- a run of the Calibre mode (run_calibre_matching)

MatchClasses == {"asin", "fuzzy", "no_format", "unmatched"}

\* match_calibre_books and the selection of to_process: the library decides
\* the class of each candidate (cls); ASIN matches first, fuzzy ones with
\* --accept-fuzzy.  No book to process: return without saving.
CalibreMatch ==
    /\ rpc = "match"
    /\ \E cls \in [Stems -> MatchClasses], local_there \in BOOLEAN, volume_there \in BOOLEAN :
          LET candidate(s) ==
                  /\ sync_state.books[s].status # None
                  /\ sync_state.books[s].status[1] \in eligible_statuses(args.all_books)
              yjr(s) == find_annotation_for_stem(sync_state.books[s], local_there, volume_there)
              entry(s) == [stem |-> s, calibre_title |-> "Calibre title",
                           kfx_path |-> CalibreBook(s), yjr_path |-> Get(yjr(s), << >>),
                           fuzzy |-> cls[s] = "fuzzy"]
              of(c) == SelectSeq(StemOrder,
                          LAMBDA s : candidate(s) /\ cls[s] = c /\ yjr(s) # None)
              asin_matched  == [i \in DOMAIN of("asin")  |-> entry(of("asin")[i])]
              fuzzy_matched == [i \in DOMAIN of("fuzzy") |-> entry(of("fuzzy")[i])]
              chosen == asin_matched \o (IF args.accept_fuzzy THEN fuzzy_matched ELSE << >>)
          IN  IF chosen = << >>
              THEN ExitRun("ok")
              ELSE /\ to_process' = chosen
                   /\ rpc' = "calibre_process"
                   /\ UNCHANGED <<args, sync_state, pairs, unchanged_count, to_extract,
                                  failed, drm_flagged, pp, upd, last_exit>>
    /\ UNCHANGED <<fs, device, fresh_success>>
    /\ RegistryFrame /\ UNCHANGED budget

\* One iteration of the processing loop of run_calibre_matching.
CalibreProcess ==
    /\ rpc = "calibre_process"
    /\ LET m == Head(to_process)
           record == sync_state.books[m.stem]
       IN  \E yjr_there \in BOOLEAN, inp \in ProcessInputs :
             LET res == CallProcessPair(inp)
             IN  IF /\ device[m.stem].calibre_file /\ yjr_there
                    /\ res.result = "OSError"
                 THEN AbortRun
                 ELSE
                 /\ to_process' = Tail(to_process)
                 /\ rpc' = AfterQueue(Tail(to_process), "save")
                 /\ upd' = NoCall
                 /\ UNCHANGED <<fs, device, args, pairs, unchanged_count, to_extract,
                                drm_flagged, last_exit, fresh_success>>
                 /\  IF ~device[m.stem].calibre_file
                     THEN /\ sync_state' = [sync_state EXCEPT !.books[m.stem] =
                                [record EXCEPT !.last_attempt = Some(Timestamp),
                                               !.error = Some("calibre-file-missing"),
                                               !.file_missing = Some(TRUE),
                                               !.calibre_kfx_path = Some(m.kfx_path)]]
                          /\ failed' = Append(failed, m.stem)
                          /\ pp' = pp
                     ELSE IF ~yjr_there
                     THEN /\ sync_state' = [sync_state EXCEPT !.books[m.stem] =
                                [record EXCEPT !.last_attempt = Some(Timestamp),
                                               !.error = Some("annotation-file-missing"),
                                               !.file_missing = Some(TRUE)]]
                          /\ failed' = Append(failed, m.stem)
                          /\ pp' = pp
                     ELSE /\ pp' = ProcessCall(m.kfx_path, m.yjr_path, inp, res)
                          /\ IF res.result = "ok"
                             THEN /\ sync_state' = [sync_state EXCEPT !.books[m.stem] =
                                        [record EXCEPT !.status = Some("success"),
                                                       !.last_attempt = Some(Timestamp),
                                                       !.error = None,
                                                       !.calibre_kfx_path = Some(m.kfx_path),
                                                       !.calibre_title = Some(m.calibre_title),
                                                       !.file_missing = None,
                                                       !.highlights = res.highlights,
                                                       !.notes = res.notes]]
                                  /\ failed' = failed
                             ELSE IF res.result = "DRMError"
                             THEN /\ sync_state' = [sync_state EXCEPT !.books[m.stem] =
                                        [record EXCEPT !.last_attempt = Some(Timestamp),
                                                       !.error = Some("calibre-kfx-drm"),
                                                       !.calibre_kfx_path = Some(m.kfx_path)]]
                                  /\ failed' = Append(failed, m.stem)
                             ELSE /\ sync_state' = [sync_state EXCEPT !.books[m.stem] =
                                        [record EXCEPT !.last_attempt = Some(Timestamp),
                                                       !.error = Some("calibre-exit-1")]]
                                  /\ failed' = Append(failed, m.stem)
    /\ RegistryFrame /\ UNCHANGED budget

SyncNext ==
    \/ TouchBook \/ TouchAnnotation \/ ChangeSidecar \/ ChangeLibrary \/ DamageStore
    \/ StartRun \/ FilterPairs \/ Dispatch
    \/ ImportMetadata \/ ImportOnly \/ ImportBookCopy \/ ExtractLocal
    \/ ProcessViaCalibre \/ ProcessInPlace
    \/ SaveState
    \/ CalibreMatch \/ CalibreProcess

SpecSync == SyncInit /\ [][SyncNext]_vars

---------------------------------------------------------------------------
(* Specification SpecSave: save_sync_state step by step, with the process  *)
(* killed at any point                                                     *)

state_path == "live"
\* A variant of tmp_path: the state is written in place.
tmp_path_InPlace == "live"
tmp_path == "tmp"

\* state["last_sync"] = now; open(tmp_path, "w"): the file exists, truncated.
SaveOpenTmp ==
    /\ rpc = "save"
    /\ sync_state' = [sync_state EXCEPT !.last_sync = Some(Timestamp)]
    /\ fs' = [fs EXCEPT ![tmp_path] = File("partial", sync_state')]
    /\ rpc' = "save_write"
    /\ UNCHANGED <<device, args, pairs, unchanged_count, to_extract, to_process,
                   failed, drm_flagged, pp, upd, last_exit, fresh_success>>
    /\ RegistryFrame /\ UNCHANGED budget

\* json.dump(state, f); f.write("\n"); the file is closed.
SaveWrite ==
    /\ rpc = "save_write"
    /\ fs' = [fs EXCEPT ![tmp_path] = File("json", sync_state)]
    /\ rpc' = "save_replace"
    /\ UNCHANGED <<device, args, sync_state, pairs, unchanged_count, to_extract,
                   to_process, failed, drm_flagged, pp, upd, last_exit, fresh_success>>
    /\ RegistryFrame /\ UNCHANGED budget

\* os.replace(tmp_path, state_path), then the end of the run: exit 1 when a
\* Kindle run has failures, exit 0 otherwise.
SaveReplace ==
    /\ rpc = "save_replace"
    /\ fs' = [f \in DOMAIN fs |->
                IF f = state_path THEN fs[tmp_path]
                ELSE IF f = tmp_path THEN AbsentFile ELSE fs[f]]
    /\ ExitRun(IF args.mode # "calibre" /\ failed # << >> THEN "fail" ELSE "ok")
    /\ fresh_success' =
          IF args.mode # "calibre" /\ fresh_success.phase = "cur"
          THEN [fresh_success EXCEPT !.phase = "prev"] ELSE NoFresh
    /\ UNCHANGED device
    /\ RegistryFrame /\ UNCHANGED budget

\* The process is killed, or the machine stops, at any point of a run.
Crash ==
    /\ rpc # "idle"
    /\ ExitRun("killed")
    /\ fresh_success' = NoFresh
    /\ UNCHANGED <<fs, device>>
    /\ RegistryFrame /\ UNCHANGED budget

\* Registries a run can hold when it reaches save_sync_state: the record of
\* the book as _update_sync_record leaves it on a fresh registry.
StatusError(st) ==
    IF st = "drm-flagged" THEN Some("DRM-protected")
    ELSE IF st = "failed" THEN Some("exit code 1") ELSE None
SampleDevice ==
    [s \in Stems |-> [book_mtime |-> Some(0), ann |-> "azw3f",
                      ann_mtime |-> Some(FatResolution), calibre_file |-> FALSE]]
SampleBooks ==
    {FreshState.books} \cup
    {update_sync_record(FreshState.books, SampleDevice, DeviceBook(m, s),
                        DeviceAnn(m, s, a), st, StatusError(st), None, None, None, None) :
        m \in Mounts, s \in Stems, a \in Sidecars, st \in Statuses}

SaveInit ==
    /\ ExtractorIdle /\ LocatorIdle
    /\ rpc = "save"
    /\ \E a \in RunArgs : args = a
    /\ \E b \in SampleBooks, ls \in {None, Some(Timestamp)} :
          sync_state = [version |-> 1, last_sync |-> ls, books |-> b]
    /\ \E old \in {AbsentFile, File("malformed", FreshState)}
                  \cup {File("json", [version |-> 1, last_sync |-> Some(Timestamp),
                                      books |-> b]) : b \in SampleBooks},
          left \in {AbsentFile, File("partial", FreshState), File("json", FreshState)} :
          fs = [f \in {"live", "tmp"} |-> IF f = "live" THEN old ELSE left]
    /\ device = SampleDevice
    /\ pairs = << >> /\ unchanged_count = 0
    /\ to_extract = << >> /\ to_process = << >>
    /\ \E f \in {<< >>, StemOrder} : failed = f
    /\ drm_flagged = << >>
    /\ pp = NoCall /\ upd = NoCall
    /\ last_exit = "none"
    /\ fresh_success = NoFresh
    /\ budget = [runs |-> 0, events |-> 0]
    /\ BatchIdle /\ MatchIdle /\ NavIdle /\ OutputIdle /\ CodecIdle

SaveNext == SaveOpenTmp \/ SaveWrite \/ SaveReplace \/ Crash

SpecSave == SaveInit /\ [][SaveNext]_vars

---------------------------------------------------------------------------
(* Specification SpecBatch: one default-mode run over three books of the    *)
(* volume, from the call of _run_extraction to the exit of main             *)

BatchOrder == <<"Art_B000000001", "Bees_B000000002", "Cats_B000000003">>
BatchStems == {BatchOrder[i] : i \in DOMAIN BatchOrder}
BatchMount == "/Volumes/Kindle"

\* The process_pair calls of a batch, one input for each outcome.
BatchInputs ==
    {inp \in ProcessInputs : inp.raw \in {<<0, 0>>, <<MaxCount, MaxCount>>}
                             /\ inp.saved = None}

BatchDevice ==
    [s \in BatchStems |-> [book_mtime |-> Some(0), ann |-> "azw3f",
                           ann_mtime |-> Some(0), calibre_file |-> FALSE]]

BatchPairs ==
    [i \in DOMAIN BatchOrder |->
        [book |-> DeviceBook(BatchMount, BatchOrder[i]),
         ann  |-> DeviceAnn(BatchMount, BatchOrder[i], "azw3f")]]

BatchInit ==
    /\ ExtractorIdle /\ LocatorIdle
    /\ rpc = "batch"
    /\ args = [mode |-> "default", reprocess |-> FALSE, mount |-> BatchMount,
               all_books |-> FALSE, accept_fuzzy |-> FALSE]
    /\ jobs \in 1 .. MaxJobs
    /\ sync_state = [version |-> 1, last_sync |-> None,
                     books |-> [s \in BatchStems |-> NoRecord]]
    /\ fs = [f \in {"live", "tmp"} |-> AbsentFile]
    /\ device = BatchDevice
    /\ pairs = BatchPairs /\ unchanged_count = 0
    /\ \E inps \in [DOMAIN BatchOrder -> BatchInputs] :
          futures = [i \in DOMAIN BatchOrder |->
                        [kfx |-> BatchPairs[i].book, yjr |-> BatchPairs[i].ann,
                         inp |-> inps[i], state |-> "queued"]]
    /\ to_extract = << >> /\ to_process = << >>
    /\ failed = << >> /\ drm_flagged = << >>
    /\ pp = NoCall /\ upd = NoCall
    /\ last_exit = "none"
    /\ fresh_success = NoFresh
    /\ budget = [runs |-> 1, events |-> 0]
    /\ summary = None /\ saves = 0
    /\ MatchIdle /\ NavIdle /\ OutputIdle /\ CodecIdle

\* A variant of AllApplied: one handled future is enough.
AllApplied_Any(fut) == \E i \in DOMAIN fut : fut[i].state = "applied"

\* Every future of the batch has been handled: the loop of _run_extraction
\* is exhausted.
AllApplied(fut) == \A i \in DOMAIN fut : fut[i].state = "applied"

Running == {i \in DOMAIN futures : futures[i].state = "running"}

\* The jobs = 1 loop: process_pair and the record of its outcome, pair after
\* pair in the order of to_process.
SequentialStep ==
    /\ rpc = "batch" /\ jobs = 1
    /\ \E i \in DOMAIN futures :
          /\ futures[i].state = "queued"
          /\ \A j \in 1 .. (i - 1) : futures[j].state = "applied"
          /\ IF CallProcessPair(futures[i].inp).result = "OSError"
             THEN AbortRun /\ UNCHANGED futures
             ELSE /\ RunExtractionStep(futures[i].kfx, futures[i].yjr, futures[i].inp)
                  /\ futures' = [futures EXCEPT ![i].state = "applied"]
                  /\ rpc' = IF AllApplied(futures') THEN "summary" ELSE rpc
                  /\ UNCHANGED <<fs, device, args, pairs, unchanged_count, to_extract,
                                 to_process, last_exit>>
    /\ UNCHANGED <<budget, jobs, summary, saves>>
    /\ BatchFrame

\* A worker of the pool takes a submitted call.
WorkerStart ==
    /\ rpc = "batch" /\ jobs > 1
    /\ Cardinality(Running) < jobs
    /\ \E i \in DOMAIN futures :
          /\ futures[i].state = "queued"
          /\ futures' = [futures EXCEPT ![i].state = "running"]
    /\ UNCHANGED <<rvars, jobs, summary, saves>>
    /\ BatchFrame

\* The worker's process_pair call returns or raises: the future completes.
WorkerFinish ==
    /\ rpc = "batch" /\ jobs > 1
    /\ \E i \in Running :
          futures' = [futures EXCEPT ![i].state = "done"]
    /\ UNCHANGED <<rvars, jobs, summary, saves>>
    /\ BatchFrame

\* One iteration of "for future in as_completed(futures)": future.result()
\* returns or re-raises in the coordinating process, which records it.
CollectOutcome ==
    /\ rpc = "batch" /\ jobs > 1
    /\ \E i \in DOMAIN futures :
          /\ futures[i].state = "done"
          /\ IF CallProcessPair(futures[i].inp).result = "OSError"
             THEN AbortRun /\ UNCHANGED futures
             ELSE /\ RunExtractionStep(futures[i].kfx, futures[i].yjr, futures[i].inp)
                  /\ futures' = [futures EXCEPT ![i].state = "applied"]
                  /\ rpc' = IF AllApplied(futures') THEN "summary" ELSE rpc
                  /\ UNCHANGED <<fs, device, args, pairs, unchanged_count, to_extract,
                                 to_process, last_exit>>
    /\ UNCHANGED <<budget, jobs, summary, saves>>
    /\ BatchFrame

\* main, "# Summary": the counts and the two lists it prints.
PrintSummary ==
    /\ rpc = "summary"
    /\ summary' = Some([processed |-> Len(pairs) - Len(failed) - Len(drm_flagged),
                        unchanged |-> unchanged_count,
                        failed |-> failed, drm_flagged |-> drm_flagged])
    /\ rpc' = "save"
    /\ UNCHANGED <<fs, device, args, sync_state, pairs, unchanged_count, to_extract,
                   to_process, failed, drm_flagged, pp, upd, last_exit, fresh_success,
                   budget, jobs, futures, saves>>
    /\ BatchFrame

\* save_sync_state(script_dir, sync_state), then exit 1 with failures, else 0.
BatchSave ==
    /\ rpc = "save"
    /\ fs' = [fs EXCEPT !["live"] =
                 File("json", [sync_state EXCEPT !.last_sync = Some(Timestamp)])]
    /\ saves' = saves + 1
    /\ ExitRun(IF failed # << >> THEN "fail" ELSE "ok")
    /\ fresh_success' = [fresh_success EXCEPT !.phase = "prev"]
    /\ UNCHANGED <<device, budget, jobs, futures, summary>>
    /\ BatchFrame

BatchNext ==
    \/ SequentialStep \/ WorkerStart \/ WorkerFinish \/ CollectOutcome
    \/ PrintSummary \/ BatchSave

SpecBatch == BatchInit /\ [][BatchNext]_vars

---------------------------------------------------------------------------
(* Specification SpecMatch: a --calibre-library run, without --limit,       *)
(* --dry-run, --rematch and --reprocess-missing, on a registry of one book, *)
(* up to the choice of the books to process                                 *)

\* SequenceMatcher ratios of the candidate's title with a title of the
\* library, in hundredths.
Scores == {0, 79, 80}

LibraryAsins ==
    {None,
     Some(<<"B", "0", "0", "0", "S", "E", "I", "B", "B", "8">>),
     Some(<<"b", "0", "0", "0", "s", "e", "i", "b", "b", "8">>)}

Libraries ==
    UNION {{[i \in 1 .. n |-> [title |-> i, asin |-> r[i].asin,
                               has_copy |-> r[i].has_copy, score |-> r[i].score]] :
               r \in [1 .. n -> [asin : LibraryAsins, has_copy : BOOLEAN,
                                 score : Scores]]} :
           n \in 0 .. MaxRows}

MatchInit ==
    /\ ExtractorIdle /\ LocatorIdle /\ BatchIdle /\ NavIdle /\ OutputIdle /\ CodecIdle
    /\ rpc = "match"
    /\ \E ab \in BOOLEAN, af \in BOOLEAN :
          args = [mode |-> "calibre", reprocess |-> FALSE, mount |-> "none",
                  all_books |-> ab, accept_fuzzy |-> af]
    /\ \E k \in MatchKeys, k2 \in MatchKeys, st \in {"drm-flagged", "success"},
          st2 \in {"metadata-only", "failed"} :
          sync_state = [version |-> 1, last_sync |-> Some(Timestamp),
                        books |-> [s \in {k, k2} |->
                            [NoRecord EXCEPT !.status = Some(IF s = k THEN st ELSE st2),
                                             !.kindle_yjr_path = Some(<<"ann">>)]]]
    /\ calibre \in Libraries
    /\ matching = None
    /\ fs = [f \in {"live", "tmp"} |-> AbsentFile]
    /\ device = << >>
    /\ pairs = << >> /\ unchanged_count = 0
    /\ to_extract = << >> /\ to_process = << >>
    /\ failed = << >> /\ drm_flagged = << >>
    /\ pp = NoCall /\ upd = NoCall
    /\ last_exit = "none"
    /\ fresh_success = NoFresh
    /\ budget = [runs |-> 1, events |-> 0]

\* run_calibre_matching, the call of match_calibre_books.  The annotation
\* file recorded for the book is there or not (ann_there keeps which).
MatchBooks ==
    /\ rpc = "match"
    /\ \E volume_there \in BOOLEAN :
          matching' = Some([lists |-> match_calibre_books(sync_state.books, calibre,
                                         args.all_books \/ args.reprocess,
                                         FALSE, volume_there),
                            accept_fuzzy |-> args.accept_fuzzy,
                            ann_there |-> volume_there,
                            chosen |-> None])
    /\ rpc' = "report"
    /\ UNCHANGED <<fs, device, args, sync_state, pairs, unchanged_count, to_extract,
                   to_process, failed, drm_flagged, pp, upd, last_exit, fresh_success,
                   budget, calibre>>
    /\ MatchFrame

\* run_calibre_matching, "# Filter to processable books": the ASIN matches,
\* and the fuzzy ones with --accept-fuzzy.  Nothing to process: return.
IsFuzzy(m) == m.fuzzy
IsAsin(m)  == ~m.fuzzy
ChooseToProcess ==
    /\ rpc = "report"
    /\ LET matched == matching[1].lists.matched
           asin_matched  == SelectSeq(matched, IsAsin)
           fuzzy_matched == SelectSeq(matched, IsFuzzy)
           chosen == asin_matched \o (IF args.accept_fuzzy THEN fuzzy_matched ELSE << >>)
       IN  /\ matching' = Some([matching[1] EXCEPT !.chosen = Some(chosen)])
           /\ IF chosen = << >>
              THEN ExitRun("ok")
              ELSE /\ to_process' = chosen
                   /\ rpc' = "calibre_process"
                   /\ UNCHANGED <<args, sync_state, pairs, unchanged_count, to_extract,
                                  failed, drm_flagged, pp, upd, last_exit>>
    /\ UNCHANGED <<fs, device, fresh_success, budget, calibre>>
    /\ MatchFrame

MatchNext == MatchBooks \/ ChooseToProcess

SpecMatch == MatchInit /\ [][MatchNext]_vars

---------------------------------------------------------------------------
(* Specification SpecNav: the Navigation Resolver on bounded navigation    *)
(* data: load_navigation and page_for_pid / find_section of the indexed    *)
(* format, build_page_map and page_for_offset of the flat formats          *)

MaxPages    == 3     \* entries of a page-list container
MaxToc      == 2     \* entries of one level of the table of contents
MaxQuery    == 4     \* largest offset asked of the Navigation Resolver
MaxBreaks   == 3     \* chunks (page breaks or text) of a flat buffer

\* book.collect_content_position_info(): chunks of (eid, pid, eid_offset).
PositionInfo ==
    <<[eid |-> 1, pid |-> 0, eid_offset |-> 0],
      [eid |-> 2, pid |-> 3, eid_offset |-> 1],
      [eid |-> 2, pid |-> 5, eid_offset |-> 0]>>

\* eid_to_pid: the first chunk of an eid gives its base pid.
eid_to_pid(pos_info) ==
    LET eids     == {pos_info[i].eid : i \in DOMAIN pos_info}
        first(e) == Min({i \in DOMAIN pos_info : pos_info[i].eid = e})
    IN  [e \in eids |-> pos_info[first(e)].pid - pos_info[first(e)].eid_offset]

\* pid = eid_to_pid.get(loc["$155"], 0) + loc.get("$143", 0)
LocPid(loc, pos_info) ==
    LET base == eid_to_pid(pos_info)
    IN  (IF loc.eid \in DOMAIN base THEN base[loc.eid] ELSE 0) + loc.offset

\* build_items(items): the nodes of one level, in the order of the data.
RECURSIVE build_items(_, _)
build_items(entries, pos_info) ==
    [i \in DOMAIN entries |->
        [label    |-> entries[i].label,
         pid      |-> LocPid(entries[i].loc, pos_info),
         children |-> build_items(entries[i].children, pos_info)]]

\* The pages a page-list container adds: entries with a label.
PageEntries(entries, pos_info) ==
    LET labelled == SelectSeq(entries, LAMBDA e : e.label # None)
    IN  [i \in DOMAIN labelled |->
            <<LocPid(labelled[i].loc, pos_info), labelled[i].label[1]>>]

\* A variant of SortPages: the list is left in the order of the data.
SortPages_Unsorted(pgs) == pgs

\* pages.sort(key=lambda x: x[0])
SortPages(pgs) == StableSort(pgs, LAMBDA x : x[1])

\* load_navigation: the loop over the containers of the navigation fragment.
RECURSIVE LoadContainers(_, _, _, _)
LoadContainers(containers, pos_info, pgs, toc_items) ==
    IF containers = << >> THEN [pages |-> pgs, toc |-> toc_items]
    ELSE LET c == Head(containers)
         IN  IF c.typ = "$237"
             THEN LoadContainers(Tail(containers), pos_info,
                      SortPages(pgs \o PageEntries(c.entries, pos_info)), toc_items)
             ELSE IF c.typ = "$212"
             THEN LoadContainers(Tail(containers), pos_info, pgs,
                      build_items(c.entries, pos_info))
             ELSE LoadContainers(Tail(containers), pos_info, pgs, toc_items)

load_navigation(nav, pos_info) == LoadContainers(nav, pos_info, << >>, << >>)

\* Locations of navigation entries; eid 9 is not in the position info.
PageLocs == {[eid |-> e, offset |-> o] : e \in {1, 2, 9}, o \in {0, 1}}
TocLocs  == {[eid |-> 1, offset |-> 0], [eid |-> 1, offset |-> 1], [eid |-> 2, offset |-> 0]}

\* Page-list containers: entry i is labelled str(i) or has no label.
PageContainers ==
    {[typ |-> "$237",
      entries |-> [i \in 1 .. n |->
                      [loc |-> locs[i],
                       label |-> IF i \in named THEN Some(str(i)) ELSE None]]] :
        n \in 0 .. MaxPages, locs \in [1 .. MaxPages -> PageLocs],
        named \in SUBSET (1 .. MaxPages)}

\* Table-of-contents containers of two levels; every node has its own label.
TocContainers ==
    UNION {{[typ |-> "$212",
             entries |-> [i \in 1 .. n |->
                 [loc |-> e[i][1], label |-> <<"S">> \o str(i),
                  children |-> [j \in DOMAIN e[i][2] |->
                      [loc |-> e[i][2][j], label |-> <<"S">> \o str(i) \o <<".">> \o str(j),
                       children |-> << >>]]]]] :
               e \in [1 .. n -> TocLocs \X SeqsUpTo(TocLocs, MaxToc)]} :
           n \in 0 .. MaxToc}

\* A container of another type ("$236", landmarks), skipped by the loop.
Landmarks == [typ |-> "$236", entries |-> << >>]

ExamplePages ==
    [typ |-> "$237",
     entries |-> <<[loc |-> [eid |-> 2, offset |-> 0], label |-> Some(<<"2">>)],
                   [loc |-> [eid |-> 1, offset |-> 0], label |-> Some(<<"1">>)]>>]

\* b"<mbp:pagebreak/>" and the other pieces of a flat buffer
PageBreakTag ==
    <<"<", "m", "b", "p", ":", "p", "a", "g", "e", "b", "r", "e", "a", "k", "/", ">">>
FlatChunks  == {PageBreakTag, <<"x">>, <<"<", "p", ">">>}
PagedBuffers == {Concat(cs) : cs \in SeqsUpTo(FlatChunks, MaxBreaks)}

NavInit ==
    /\ ExtractorIdle /\ LocatorIdle /\ RegistryIdle /\ OutputIdle /\ CodecIdle
    /\ nav_index = << >> /\ nav_answer = None
    /\ \/ /\ npc = "kfx"
          /\ nav_query \in 0 .. MaxQuery
          /\ \/ \E c \in PageContainers : nav_data = <<c, Landmarks>>
             \/ \E c \in TocContainers : nav_data = <<ExamplePages, c>>
             \/ \E c \in {d \in PageContainers : Len(d.entries) = 1} :
                    nav_data = <<ExamplePages, c>>
             \/ nav_data = << >>
       \/ /\ npc = "flat"
          /\ nav_data \in PagedBuffers
          /\ nav_query \in 0 .. Len(nav_data)

\* pages, toc = load_navigation(kfx_file)
LoadNavigation ==
    /\ npc = "kfx"
    /\ nav_index' = load_navigation(nav_data, PositionInfo)
    /\ npc' = "loaded_kfx"
    /\ UNCHANGED <<nav_data, nav_query, nav_answer>>
    /\ NavFrame

\* pages = build_page_map(all_html)
BuildPageMap ==
    /\ npc = "flat"
    /\ nav_index' = [pages |-> build_page_map(nav_data), toc |-> << >>]
    /\ npc' = "loaded_flat"
    /\ UNCHANGED <<nav_data, nav_query, nav_answer>>
    /\ NavFrame

\* page = page_for_pid(start); section, chapter = find_section(start)
ResolveIndexed ==
    /\ npc = "loaded_kfx"
    /\ LET sc == find_section(nav_index.toc, nav_query)
       IN  nav_answer' = Some([page    |-> page_for_offset(nav_index.pages, nav_query),
                               section |-> sc[1], chapter |-> sc[2]])
    /\ npc' = "resolved_kfx"
    /\ UNCHANGED <<nav_data, nav_index, nav_query>>
    /\ NavFrame

\* page = page_for_offset(pages, start) if pages else None
ResolveFlat ==
    /\ npc = "loaded_flat"
    /\ nav_answer' = Some([page    |-> IF nav_index.pages # << >>
                                       THEN page_for_offset(nav_index.pages, nav_query)
                                       ELSE None,
                           section |-> None, chapter |-> None])
    /\ npc' = "resolved_flat"
    /\ UNCHANGED <<nav_data, nav_index, nav_query>>
    /\ NavFrame

NavNext == LoadNavigation \/ BuildPageMap \/ ResolveIndexed \/ ResolveFlat

SpecNav == NavInit /\ [][NavNext]_vars

---------------------------------------------------------------------------
(* Specification SpecCodec: the position parser of each extractor called   *)
(* on the position strings of its annotation files, and the offset written *)
(* as the item's location                                                  *)

MaxDigits == 2     \* digits of an offset of a position string

\* Decimal numerals as the device writes them: no leading zero.
Numerals ==
    {s \in SeqsUpTo({DigitChars[k] : k \in DOMAIN DigitChars}, MaxDigits) :
        s # << >> /\ (s[1] = "0" => Len(s) = 1)}

\* "<opaque-prefix>:<offset>"
PrefixedPositions ==
    {pre \o <<":">> \o n : pre \in {<<"A", "d">>, <<"Q">>}, n \in Numerals}

\* "<offset>:<spine>:<total-length>:<sync-blob>"
FieldPositions ==
    {n \o <<":">> \o sp \o <<":">> \o tl \o <<":">> \o blob :
        n \in Numerals, sp \in {<<"0">>, <<"7">>}, tl \in {<<"9", "0">>},
        blob \in {<<"Q">>, <<"Q", "=">>}}

\* The position strings an extractor's parser is written for.
PositionStrings(f) ==
    IF f = "kfx" THEN PrefixedPositions
    ELSE IF f = "azw3" THEN Numerals \cup PrefixedPositions
    ELSE Numerals \cup FieldPositions

\* Strings that are not of the extractor's grammar: the offset field is not
\* a number, or (indexed format) there is no colon.
OtherStrings(f) ==
    {BadPosStr(form) : form \in PositionForms(f)}
        \cup (IF f = "kfx" THEN {<<"7">>} ELSE {})

CodecInit ==
    /\ ExtractorIdle /\ LocatorIdle /\ RegistryIdle /\ NavIdle /\ OutputIdle
    /\ cpc = "given"
    /\ pos_fmt \in {"kfx", "azw3", "mobi"}
    /\ pos_given \in PositionStrings(pos_fmt) \cup OtherStrings(pos_fmt)
    /\ pos_offset = None /\ pos_location = None

\* start = parse_position(ann["startPosition"])
ParsePosition ==
    /\ cpc = "given"
    /\ ~parse_position_raises(pos_fmt, pos_given)
    /\ pos_offset' = Some(parse_position(pos_fmt, pos_given))
    /\ cpc' = "parsed"
    /\ UNCHANGED <<pos_fmt, pos_given, pos_location>>
    /\ CodecFrame

\* parse_position raises ValueError or IndexError.
ParseRaises ==
    /\ cpc = "given"
    /\ parse_position_raises(pos_fmt, pos_given)
    /\ cpc' = "raised"
    /\ UNCHANGED <<pos_fmt, pos_given, pos_offset, pos_location>>
    /\ CodecFrame

\* "location": start, written by json.dump
WriteLocation ==
    /\ cpc = "parsed"
    /\ pos_location' = Some(str(pos_offset[1]))
    /\ cpc' = "written"
    /\ UNCHANGED <<pos_fmt, pos_given, pos_offset>>
    /\ CodecFrame

CodecNext == ParsePosition \/ ParseRaises \/ WriteLocation

SpecCodec == CodecInit /\ [][CodecNext]_vars

---------------------------------------------------------------------------
(* Claims about the Range Reconciler and note attachment (SpecExtract)     *)

\* The offsets of an annotation record, as its extractor reads them.
Rng(a) == <<parse_position(fmt, a.startPosition), parse_position(fmt, a.endPosition)>>
Inside(x, y) == x[1] >= y[1] /\ x[2] <= y[2]
Input     == {annotations[i] : i \in DOMAIN annotations}
Survivors == {deduped[i][3] : i \in DOMAIN deduped}
\* a lies inside a record other than those of pair
InsideAnother(a, pair) == \E z \in Input \ pair : Inside(Rng(a), Rng(z))

\* C1: after the sweep, for any two highlight records X and Y of the book:
\* if X's range lies inside Y's (start >= start, end <= end) then X does not
\* survive and Y does, so exactly one of the two survives, the containing one
\* (of two records with the same range exactly one survives); if neither range
\* contains the other, both survive.  A record of the pair that lies inside a
\* further record of the book is removed by that containment in turn; with
\* two records in the book the statement is exact.  Every kept entry carries
\* the offsets of its record.
C1_Reconciler ==
    xpc \in {"swept", "done"} =>
        /\ \A i \in DOMAIN deduped :
               <<deduped[i][1], deduped[i][2]>> = Rng(deduped[i][3])
        /\ \A i, j \in DOMAIN deduped : deduped[i][3] = deduped[j][3] => i = j
        /\ \A X, Y \in Input :
             X # Y =>
               /\ (Inside(Rng(X), Rng(Y)) /\ Rng(X) # Rng(Y)) =>
                     /\ X \notin Survivors
                     /\ Y \in Survivors \/ InsideAnother(Y, {X, Y})
               /\ Rng(X) = Rng(Y) =>
                     /\ ~(X \in Survivors /\ Y \in Survivors)
                     /\ X \in Survivors \/ Y \in Survivors \/ InsideAnother(X, {X, Y})
               /\ (~Inside(Rng(X), Rng(Y)) /\ ~Inside(Rng(Y), Rng(X))) =>
                     /\ X \in Survivors \/ InsideAnother(X, {X, Y})
                     /\ Y \in Survivors \/ InsideAnother(Y, {X, Y})

\* A swept book with a record X inside a record Y and a record W that
\* partially overlaps Y: Y and W are what is kept.
C1_Witness ==
    /\ xpc = "swept"
    /\ \E X, Y, W \in Input :
          /\ Inside(Rng(X), Rng(Y)) /\ Rng(X) # Rng(Y)
          /\ ~Inside(Rng(W), Rng(Y)) /\ ~Inside(Rng(Y), Rng(W))
          /\ Rng(W)[1] < Rng(Y)[2] /\ Rng(Y)[1] < Rng(W)[2]
          /\ Survivors = {Y, W}

\* What an item is, for the comparison of emission orders.
ItemTag(it) ==
    IF it.type = "highlight" THEN <<"highlight", it.creationTime>>
    ELSE <<"note", it.text>>

\* The notes whose end offset is pos, in file order.
NotesEndingAt(pos) ==
    SelectSeq(notes, LAMBDA n : parse_position(fmt, n.endPosition) = pos)

\* C2 as stated: after a run, every surviving highlight is emitted, followed
\* by exactly the notes whose end offset equals the highlight's end offset.
C2_Original ==
    xpc = "done" =>
        [i \in DOMAIN items |-> ItemTag(items[i])]
          = Concat([i \in DOMAIN deduped |->
                      <<<<"highlight", deduped[i][3].creationTime>>>>
                      \o [k \in DOMAIN NotesEndingAt(deduped[i][2]) |->
                             <<"note", NotesEndingAt(deduped[i][2])[k].note>>]])

---------------------------------------------------------------------------
(* Claims about the incremental filter (SpecFilter)                        *)

\* The book b passed through the filter of a run that honours the registry,
\* with a record of status success and both of its files readable.
FilteredSuccess(b) ==
    /\ rpc = "filtered" /\ ~args.reprocess
    /\ sync_state.books[b].status = Some("success")
    /\ device[b].book_mtime # None /\ device[b].ann_mtime # None
BookDiff(b) == Abs(device[b].book_mtime[1] - Get(sync_state.books[b].kfx_mtime, 0))
AnnDiff(b)  == Abs(device[b].ann_mtime[1] - Get(sync_state.books[b].yjr_mtime, 0))
Kept(b)     == \E i \in DOMAIN pairs : PathStem(pairs[i].book) = b

\* C5: filter_new_or_changed compares stored and current mtimes with a fixed
\* tolerance of 2 seconds (4 half seconds): a previously successful book is
\* skipped exactly when its book mtime and its annotation mtime each differ
\* from the stored value by less than 2 s.  In particular it is skipped when
\* both differ by 1.5 s, and kept when one of them differs by 2.5 s (or by
\* 2 s exactly).
C5_Tolerance ==
    \A b \in Stems :
        FilteredSuccess(b) =>
            /\ Kept(b) <=> ~(BookDiff(b) < 4 /\ AnnDiff(b) < 4)
            /\ (BookDiff(b) = 3 /\ AnnDiff(b) = 3) => ~Kept(b)
            /\ (BookDiff(b) = 5 \/ AnnDiff(b) = 5) => Kept(b)
            /\ unchanged_count = Cardinality({s \in Stems : ~Kept(s)})

\* A previously successful book whose two mtimes differ by 1.5 s from the
\* stored ones has been skipped.
C5_Witness ==
    \E b \in Stems :
        /\ FilteredSuccess(b)
        /\ BookDiff(b) = 3 /\ AnnDiff(b) = 3
        /\ ~Kept(b) /\ unchanged_count = 1

---------------------------------------------------------------------------
(* Claims about the book registry (SpecSync, SpecSave)                     *)

\* C6 as stated: when a Kindle run that recorded success for a book has
\* completed and neither file of the book was modified since, a following run
\* on the same volume path without --reprocess skips the book (the filter does
\* not keep it), whatever runs came before.
C6_Original ==
    (/\ rpc = "filtered" /\ ~args.reprocess
     /\ fresh_success.phase = "prev" /\ fresh_success.mount = args.mount)
        => \A b \in fresh_success.stems : ~Kept(b)

\* The same, for a record whose device book path is the path of the run.
C6_SamePath ==
    (/\ rpc = "filtered" /\ ~args.reprocess
     /\ fresh_success.phase = "prev" /\ fresh_success.mount = args.mount)
        => \A b \in fresh_success.stems :
              sync_state.books[b].kindle_kfx_path = Some(DeviceBook(args.mount, b))
                 => ~Kept(b)

\* C7: save_sync_state writes the new state to the temporary file and then
\* renames it over the live store: no step of a save, and no kill at any
\* point of it, leaves the live store partial; the live store keeps the
\* previously saved content at every step but the rename, which puts the
\* complete new state (the in-memory registry with its last_sync set) there.
C7_Atomic ==
    [][ /\ fs'["live"].kind # "partial"
        /\ \/ fs'["live"] = fs["live"]
           \/ /\ rpc = "save_replace" /\ rpc' = "idle" /\ last_exit' # "killed"
              /\ sync_state.last_sync = Some(Timestamp)
              /\ fs'["live"] = File("json", sync_state) ]_vars

\* A run killed between the write and the rename: the temporary file holds
\* the complete new state, the live store still the previous one.
C7_Witness ==
    /\ rpc = "idle" /\ last_exit = "killed"
    /\ fs["tmp"].kind = "json" /\ fs["tmp"].state.last_sync = Some(Timestamp)
    /\ fs["live"].kind = "json" /\ fs["live"].state.books # fs["tmp"].state.books

\* C8 as stated: load_sync_state never fails the run; a run that has loaded
\* holds the persisted state, or the empty registry when the store is absent
\* or cannot be parsed.
C8_Original ==
    /\ last_exit # "traceback"
    /\ rpc \in {"scanned", "match"} =>
          sync_state = IF fs["live"].kind = "json" THEN fs["live"].state
                       ELSE FreshState

\* The record of the last _update_sync_record call, before and after it.
UpdBefore == upd.before
UpdAfter  == sync_state.books[PathStem(upd.kfx)]
DeviceFields == {"kindle_kfx_path", "kindle_yjr_path", "kfx_mtime", "yjr_mtime"}
DeviceFieldsKept == \A f \in DeviceFields : UpdAfter[f] = UpdBefore[f]

C10_Original ==
    (pp.fn = "process_pair" /\ pp.result = "DRMError") =>
        LET record == sync_state.books[PathStem(pp.book)]
        IN  /\ record.status = Some("drm-flagged")
            /\ record.highlights = Some(pp.raw[1])
            /\ record.notes = Some(pp.raw[2])

\* The same, for the runs of the Kindle mode only.
C10_KindleMode ==
    (pp.fn = "process_pair" /\ pp.result = "DRMError" /\ args.mode # "calibre") =>
        LET record == sync_state.books[PathStem(pp.book)]
        IN  /\ record.status = Some("drm-flagged")
            /\ record.highlights = Some(pp.raw[1])
            /\ record.notes = Some(pp.raw[2])


\* C25: the list kept by the sweep has strictly increasing start offsets and
\* strictly increasing end offsets, so no kept range contains or equals
\* another kept range, adjacent in the sorted input or not.
C25_StrictlyIncreasing ==
    xpc \in {"swept", "done"} =>
        /\ \A i, j \in DOMAIN deduped :
              i < j => /\ deduped[i][1] < deduped[j][1]
                       /\ deduped[i][2] < deduped[j][2]
        /\ \A i, j \in DOMAIN deduped :
              i # j => ~Inside(<<deduped[i][1], deduped[i][2]>>,
                               <<deduped[j][1], deduped[j][2]>>)

\* Three records swept to two kept ranges, the second of which starts where
\* the first ends and replaced an earlier record with the same start and a
\* smaller end.
C25_Witness ==
    /\ xpc = "swept"
    /\ Len(annotations) = 3 /\ Len(deduped) = 2
    /\ deduped[2][1] = deduped[1][2]
    /\ \E a \in Input \ Survivors :
          /\ Rng(a)[1] = deduped[2][1]
          /\ Rng(a)[2] < deduped[2][2]
          /\ ~Inside(Rng(a), <<deduped[1][1], deduped[1][2]>>)


\* The emitted items of a type.
ItemsOfType(kind) == {k \in DOMAIN items : items[k].type = kind}

\* C26: each note record is emitted at most once and each highlight record
\* at most once; the emitted note items are never more than the note
\* records of the annotation cache, the emitted highlight items never more
\* than its highlight records, and every item comes from a record.
C26_AtMostOnce ==
    xpc = "done" =>
        /\ Cardinality(ItemsOfType("note")) <= Len(notes)
        /\ Cardinality(ItemsOfType("highlight")) <= Len(annotations)
        /\ \A i \in DOMAIN notes :
              Cardinality({k \in ItemsOfType("note") :
                              items[k].text = notes[i].note}) <= 1
        /\ \A i \in DOMAIN annotations :
              Cardinality({k \in ItemsOfType("highlight") :
                  items[k].creationTime = annotations[i].creationTime}) <= 1
        /\ \A k \in ItemsOfType("note") :
              \E i \in DOMAIN notes : items[k].text = notes[i].note
        /\ \A k \in ItemsOfType("highlight") :
              \E i \in DOMAIN annotations :
                  items[k].creationTime = annotations[i].creationTime

\* Three highlight records of which two end at the same offset, one of the
\* two removed by the sweep, and the note at that offset emitted once.
C26_Witness ==
    /\ xpc = "done"
    /\ Len(annotations) = 3
    /\ Cardinality(ItemsOfType("highlight")) = 2
    /\ Cardinality(ItemsOfType("note")) = 1
    /\ \E i, j \in DOMAIN annotations :
          /\ i # j /\ Rng(annotations[i])[2] = Rng(annotations[j])[2]
          /\ \E n \in DOMAIN notes :
                NoteKey(fmt, notes[n]) = Rng(annotations[i])[2]


\* C27 (as stated): after any sequence of runs in any mode, every registry
\* record whose status is success has a null error field.
C27_Original ==
    \A s \in Stems :
        sync_state.books[s].status = Some("success")
            => sync_state.books[s].error = None

\* The errors the processing loop of run_calibre_matching records without
\* touching the status.
CalibreErrors ==
    {"calibre-file-missing", "annotation-file-missing", "calibre-kfx-drm",
     "calibre-exit-1"}

\* C27, outside the Calibre mode: a record with status success carries an
\* error only when a later Calibre run failed on it.
C27_ExceptCalibreFailures ==
    \A s \in Stems :
        sync_state.books[s].status = Some("success") =>
            \/ sync_state.books[s].error = None
            \/ sync_state.books[s].error[1] \in CalibreErrors

\* A record written as success by a Calibre run, after an earlier failure.
C27_ClearedWitness ==
    /\ rpc = "save" /\ args.mode = "calibre"
    /\ upd = NoCall /\ pp # NoCall /\ pp.result = "ok"
    /\ \E s \in Stems :
          /\ sync_state.books[s].status = Some("success")
          /\ sync_state.books[s].error = None
          /\ sync_state.books[s].calibre_title # None

---------------------------------------------------------------------------
(* Claims about a batch of books (SpecBatch)                                *)

\* The batch has ended with every book recorded in the saved registry.
BatchRecorded ==
    /\ last_exit \in {"ok", "fail"}
    /\ saves = 1
    /\ fs["live"].kind = "json"
    /\ \A s \in BatchStems : fs["live"].state.books[s].status # None

\* C11 (as stated): a failure on one book, of any kind, never aborts the
\* batch: when the run ends, every book of the batch has been processed and
\* recorded, and the registry has been saved.
C11_Original == rpc = "idle" => BatchRecorded

\* C11, for the failures _run_extraction catches (DRMError and
\* CalledProcessError): the batch runs to its end and the registry is saved.
C11_CaughtFailures ==
    (rpc = "idle" /\ \A i \in DOMAIN futures : ~futures[i].inp.os_error)
        => BatchRecorded

\* A batch that ended with both a failed and a DRM-protected book recorded.
C11_CaughtWitness ==
    /\ rpc = "idle" /\ BatchRecorded
    /\ \E s \in BatchStems : fs["live"].state.books[s].status = Some("failed")
    /\ \E s \in BatchStems : fs["live"].state.books[s].status = Some("drm-flagged")


\* The names of the books of the batch whose process_pair call ends with the
\* given result, in the order of submission.
NamesWith(result) ==
    LET hit(f) == CallProcessPair(f.inp).result = result
        sel == SelectSeq(futures, hit)
    IN  [i \in DOMAIN sel |-> PathStem(sel[i].kfx)]

\* The summary of the batch when the outcomes complete in the order of
\* submission (one of the completion orders, and the order of --jobs 1).
SubmissionOrderSummary ==
    [processed |-> Len(pairs) - Len(NamesWith("CalledProcessError"))
                              - Len(NamesWith("DRMError")),
     unchanged |-> unchanged_count,
     failed |-> NamesWith("CalledProcessError"),
     drm_flagged |-> NamesWith("DRMError")]

Members(seq) == {seq[i] : i \in DOMAIN seq}

\* C12 (as stated): under parallel execution the summary just printed, counts and
\* the failed and DRM-protected lists, is the same for the same inputs
\* whatever the order of completion: it is the summary of the order of
\* submission.
C12_Original ==
    (jobs > 1 /\ rpc = "save") => summary[1] = SubmissionOrderSummary

\* C12, without the order of the lists: the counts and the members of the
\* two lists do not depend on the order of completion.
C12_CountsAndMembers ==
    (jobs > 1 /\ rpc = "save") =>
        /\ summary[1].processed = SubmissionOrderSummary.processed
        /\ Len(summary[1].failed) = Len(SubmissionOrderSummary.failed)
        /\ Len(summary[1].drm_flagged) = Len(SubmissionOrderSummary.drm_flagged)
        /\ Members(summary[1].failed) = Members(SubmissionOrderSummary.failed)
        /\ Members(summary[1].drm_flagged) = Members(SubmissionOrderSummary.drm_flagged)

\* A parallel batch whose failed list is printed against the order of
\* submission.
C12_ReorderedWitness ==
    /\ jobs > 1 /\ rpc = "save"
    /\ Len(summary[1].failed) = 2
    /\ summary[1].failed # SubmissionOrderSummary.failed

---------------------------------------------------------------------------
(* Claims about the Library Matcher (SpecMatch)                             *)

\* Every candidate of the run with what match_calibre_books decided for it.
MatchResults ==
    IF matching = None THEN {}
    ELSE LET l == matching[1].lists
             all == l.matched \o l.matched_no_kfx \o l.unmatched \o l.no_yjr
         IN  {all[i] : i \in DOMAIN all}

\* The books chosen for processing, once chosen.
ChoiceMade == matching # None /\ matching[1].chosen # None
Chosen == {matching[1].chosen[1][i] : i \in DOMAIN matching[1].chosen[1]}

\* The identifier B000SEIBB8 of the key KeyAsin is in the library, on a book
\* with a copy / on some book.
IdentifierRows ==
    {i \in DOMAIN calibre :
        /\ calibre[i].asin # None
        /\ upper(calibre[i].asin[1]) = SubSeq(KeyAsin, 8, Len(KeyAsin))}
IdentifierWithCopy == \E i \in IdentifierRows : calibre[i].has_copy
IdentifierKnown == IdentifierRows # {}

\* C13 (as stated): a candidate whose key carries an identifier that is in
\* the library with a decodable copy is an exact match of confidence 1.0 and
\* is among the books processed, without any opt-in.
C13_Original ==
    \A r \in MatchResults :
        (r.stem = KeyAsin /\ IdentifierWithCopy) =>
            /\ r.list = "matched" /\ ~r.fuzzy /\ r.score = Some(100)
            /\ ChoiceMade => r \in Chosen

\* C13 (amended): such a candidate is never matched by title; it is an exact
\* match of confidence 1.0 and is processed without opt-in when its
\* annotation file is found, and is listed as "no annotation file" and not
\* processed when it is not.
C13_ExactMatch ==
    \A r \in MatchResults :
        (r.stem = KeyAsin /\ IdentifierWithCopy) =>
            /\ ~r.fuzzy /\ ~r.fuzzy_called /\ r.score = Some(100)
            /\ r.list = (IF matching[1].ann_there THEN "matched" ELSE "no_yjr")
            /\ ChoiceMade => (r \in Chosen <=> matching[1].ann_there)

\* An exact match chosen for processing without --accept-fuzzy, the
\* identifier being stored in lowercase in the library.
C13_Witness ==
    /\ ChoiceMade /\ ~matching[1].accept_fuzzy
    /\ \A i \in IdentifierRows : calibre[i].asin[1] # upper(calibre[i].asin[1])
    /\ \E r \in Chosen :
          r.stem = KeyAsin /\ IdentifierWithCopy /\ r.score = Some(100)


\* The books of the library whose titles are compared with the candidate's
\* title, and the best ratio among them.
TitleRows == {i \in DOMAIN calibre : calibre[i].has_copy \/ calibre[i].asin # None}
BestScore == IF TitleRows = {} THEN 0 ELSE Max({calibre[i].score : i \in TitleRows})
BestHasCopy == \E i \in TitleRows : calibre[i].has_copy /\ calibre[i].score = BestScore

\* C14 (as stated): a candidate matched by title is among the books processed
\* if and only if its best ratio is at least 0.80 and --accept-fuzzy is
\* given.
C14_Original ==
    ChoiceMade =>
        \A r \in MatchResults :
            r.fuzzy_called =>
                (r \in Chosen <=> (BestScore >= 80 /\ matching[1].accept_fuzzy))

\* C14 (amended): it is processed if and only if its best ratio is at least
\* 0.80, --accept-fuzzy is given, a title of that ratio belongs to a book
\* with a copy and the candidate's annotation file is found; a processed
\* match by title has a ratio of at least 0.80 and the opt-in.
C14_FuzzyOptIn ==
    ChoiceMade =>
        /\ \A r \in MatchResults :
              r.fuzzy_called =>
                  (r \in Chosen <=> /\ BestScore >= 80
                                    /\ matching[1].accept_fuzzy
                                    /\ BestHasCopy
                                    /\ matching[1].ann_there)
        /\ \A r \in Chosen :
              r.fuzzy => /\ matching[1].accept_fuzzy
                         /\ r.score # None /\ r.score[1] >= 80

\* A match by title of ratio exactly 0.80 chosen under --accept-fuzzy, and
\* a title of ratio 0.79 in the same library.
C14_Witness ==
    /\ ChoiceMade /\ matching[1].accept_fuzzy
    /\ \E r \in Chosen : r.fuzzy /\ r.score = Some(80)
    /\ \E i \in TitleRows : calibre[i].score = 79


\* C15: a candidate whose identifier is in the library only on books without
\* a decodable copy is recorded as "matched, no usable copy" without a
\* comparison of titles; titles are compared only for a candidate whose key
\* has no identifier or whose identifier is not in the library.
C15_NoUsableCopy ==
    \A r \in MatchResults :
        /\ (r.stem = KeyAsin /\ IdentifierKnown /\ ~IdentifierWithCopy) =>
               /\ r.list = "matched_no_kfx" /\ ~r.fuzzy_called /\ ~r.fuzzy
               /\ \E i \in IdentifierRows : r.calibre_title = calibre[i].title
               /\ ChoiceMade => r \notin Chosen
        /\ r.fuzzy_called => (r.stem # KeyAsin \/ ~IdentifierKnown)

\* The identifier is in the library on a book without a copy while another
\* book, with a copy, has a title of ratio 0.80: the candidate is recorded as
\* matched without a usable copy.
C15_Witness ==
    /\ \E r \in MatchResults : r.stem = KeyAsin /\ r.list = "matched_no_kfx"
    /\ IdentifierKnown /\ ~IdentifierWithCopy
    /\ \E i \in DOMAIN calibre : calibre[i].has_copy /\ calibre[i].score = 80

---------------------------------------------------------------------------
(* Claims about malformed positions and empty texts (SpecExtract)           *)

\* C16 (as stated): a position string without a parseable integer makes the
\* extractor skip that one annotation: the run goes on and ends with the
\* export of the other annotations of the book.
C16_Original ==
    (xpc # "start" /\ main_raises(fmt, annotations, notes)) => xpc \in {"swept", "done"}

\* C16, what the extractors do: with such a position among the records they
\* parse, the run ends with the exception and nothing of the book is emitted.
C16_WholeBookFails ==
    (xpc # "start" /\ main_raises(fmt, annotations, notes)) =>
        xpc = "raised" /\ items = << >>

\* A run that ended with the exception although the annotation file holds a
\* highlight whose positions parse.
C16_RaisedWitness ==
    /\ xpc = "raised"
    /\ \E i \in DOMAIN annotations :
          /\ ~parse_position_raises(fmt, annotations[i].startPosition)
          /\ ~parse_position_raises(fmt, annotations[i].endPosition)


\* C17 (as stated): every item of a finished run, highlight or note, of any
\* extractor, has a text that is not empty.
C17_Original ==
    xpc = "done" => \A i \in DOMAIN items : items[i].text # << >>

\* C17, for the highlights of the flat-buffer extractors (azw3, mobi), which
\* test "if not text: continue".
C17_FlatHighlights ==
    (xpc = "done" /\ fmt # "kfx") =>
        \A i \in DOMAIN items :
            items[i].type = "highlight" => items[i].text # << >>

\* A flat-buffer run that dropped the highlight of a blank range and emitted
\* another highlight.
C17_FlatWitness ==
    /\ xpc = "done" /\ fmt # "kfx"
    /\ \E i \in DOMAIN deduped : deduped[i][1] = 100 /\ deduped[i][2] = 120
    /\ Len(items) > 0 /\ Len(items) < Len(deduped)

---------------------------------------------------------------------------
(* Claims about the status of a record (SpecSync)                           *)

\* A step of a run in progress changes the status of the record of s from a
\* to b.
StatusStep(s, a, b) ==
    /\ rpc # "idle" /\ rpc' # "idle"
    /\ sync_state.books[s].status = a
    /\ sync_state'.books[s].status = b
    /\ a # b

ExtractionStatuses == {"success", "failed", "drm-flagged"}

\* C18 (as stated): a status is set from none to one of the five statuses
\* and stays among them; from imported the only next statuses are success,
\* failed and drm-flagged, recorded when extraction ran on the imported copy.
C18_Original ==
    [][\A s \in Stems : \A a, b \in {None} \cup {Some(x) : x \in Statuses \cup {"pending"}} :
          StatusStep(s, a, b) =>
              /\ b # None /\ b[1] \in Statuses
              /\ a = Some("imported") =>
                    /\ b[1] \in ExtractionStatuses
                    /\ pp'.fn = "process_pair" /\ pp'.book = InputBook(s)]_vars

\* C18 (amended): a status is set from none to one of the five statuses and
\* stays among them; from imported the next status is success, failed or
\* drm-flagged when a process_pair call ran in the step (on the imported
\* copy, on the files of the volume or on a Calibre copy), and metadata-only
\* in a run of --import-metadata.
C18_StatusMachine ==
    [][\A s \in Stems : \A a, b \in {None} \cup {Some(x) : x \in Statuses \cup {"pending"}} :
          StatusStep(s, a, b) =>
              /\ b # None /\ b[1] \in Statuses
              /\ a = Some("imported") =>
                    \/ b[1] \in ExtractionStatuses /\ pp'.fn = "process_pair"
                    \/ b[1] = "metadata-only" /\ args.mode = "import-metadata"]_vars

\* A record that was imported has just been given the status of the
\* extraction on its imported copy.
C18_Witness ==
    /\ rpc # "idle" /\ upd.fn = "_update_sync_record"
    /\ upd.before.status = Some("imported")
    /\ upd.status \in ExtractionStatuses
    /\ pp.fn = "process_pair" /\ pp.book = InputBook(PathStem(upd.kfx))

\* A record that was imported has just been recorded as metadata-only.
C18_MetadataWitness ==
    /\ rpc # "idle" /\ upd.fn = "_update_sync_record"
    /\ upd.before.status = Some("imported")
    /\ upd.status = "metadata-only"

---------------------------------------------------------------------------
(* Claims about snap_to_tag_boundaries (SpecLocate)                         *)

\* The offset p of buf lies inside a tag: a '<' before p with no '>' between.
InsideTag(buf, p) ==
    \E k \in 0 .. (p - 1) :
        /\ At(buf, k) = "<"
        /\ \A m \in (k + 1) .. (p - 1) : At(buf, m) # ">"

\* The slice t holds a '<' without a later '>'.
HasUnterminatedTag(t) ==
    \E i \in DOMAIN t : t[i] = "<" /\ \A j \in (i + 1) .. Len(t) : t[j] # ">"

\* What the claim says of the result of a call on (all_html, qstart, qend).
SnapGuarantee ==
    /\ (InsideTag(all_html, qstart) /\ Find(all_html, {">"}, qstart) # -1) =>
           SnapStart(all_html, qstart) = Find(all_html, {">"}, qstart) + 1
    /\ InsideTag(all_html, qend) =>
           At(all_html, SnapEnd(all_html, qend)) = "<" /\ SnapEnd(all_html, qend) < qend
    /\ ~HasUnterminatedTag(snapped)
    /\ snapped # << >> => ~InsideTag(all_html, SnapStart(all_html, qstart))

\* C19 (as stated): a start inside a tag is advanced past the tag's '>', an
\* end inside a tag is pulled back to the tag's '<', and for every buffer and
\* range the slice holds no unterminated tag and no tag cut at its start.
C19_Original ==
    lpc \in {"snapped", "done_flat"} => SnapGuarantee

\* No tag of the buffer holds a '<': between two '<' there is a '>'.
TidyMarkup(buf) ==
    \A k, m \in 0 .. (Len(buf) - 1) :
        (k < m /\ At(buf, k) = "<" /\ At(buf, m) = "<") =>
            \E n \in (k + 1) .. (m - 1) : At(buf, n) = ">"

\* C19, for such buffers: the guarantee holds.
C19_TidyMarkup ==
    (lpc \in {"snapped", "done_flat"} /\ TidyMarkup(all_html)) => SnapGuarantee

\* A call on tidy markup whose start and end were both inside tags and
\* whose slice is not empty.
C19_TidyWitness ==
    /\ lpc = "snapped" /\ TidyMarkup(all_html)
    /\ InsideTag(all_html, qstart) /\ InsideTag(all_html, qend)
    /\ snapped # << >>


\* C20: in a parallel batch a step of a worker changes neither the registry
\* nor the store; the registry of the run changes only when the coordinator
\* takes one completed future, and then only in the record of that future's
\* book; the store is written only once, when every future has been handled;
\* a batch that ran to its end has saved exactly once.
C20_CoordinatorOnly ==
    [][jobs > 1 =>
          /\ (sync_state' # sync_state /\ rpc' # "idle") =>
                \E i \in DOMAIN futures :
                    /\ futures[i].state = "done"
                    /\ futures' = [futures EXCEPT ![i].state = "applied"]
                    /\ \A s \in BatchStems \ {PathStem(futures[i].kfx)} :
                          sync_state'.books[s] = sync_state.books[s]
          /\ (\E i \in DOMAIN futures :
                  /\ futures'[i].state # futures[i].state
                  /\ futures'[i].state \in {"running", "done"}) =>
                UNCHANGED <<sync_state, fs>>
          /\ fs' # fs =>
                /\ \A i \in DOMAIN futures : futures[i].state = "applied"
                /\ saves = 0 /\ saves' = 1
          /\ saves' <= 1
          /\ last_exit' \in {"ok", "fail"} => saves' = 1]_vars

\* A parallel batch that ran to its end and saved once, the outcome of the
\* last submitted book having been recorded before that of the first.
C20_Witness ==
    /\ jobs > 1 /\ saves = 1 /\ last_exit = "fail"
    /\ \A i \in DOMAIN futures : futures[i].state = "applied"
    /\ fs["live"].kind = "json"
    /\ summary # None
    /\ summary[1].failed = <<BatchOrder[3], BatchOrder[1]>>


\* The futures of the batch whose extractor failed without "DRM" in its
\* stderr, and whose outcome the coordinator has recorded.
DecodeFailures ==
    {i \in DOMAIN futures :
        /\ futures[i].state = "applied"
        /\ futures[i].inp.krds_ok /\ futures[i].inp.returncode # 0
        /\ ~HasDRM(futures[i].inp.stderr)}

BatchRecordOf(i) == sync_state.books[PathStem(futures[i].kfx)]

---------------------------------------------------------------------------
(* Claims about the Navigation Resolver (SpecNav)                          *)

Loaded   == npc \in {"loaded_kfx", "loaded_flat", "resolved_kfx", "resolved_flat"}
Resolved == npc \in {"resolved_kfx", "resolved_flat"}

\* The list is in ascending order of key K.
Ascending(s, K(_)) == \A i, j \in DOMAIN s : i < j => K(s[i]) <= K(s[j])

\* The entries of a list at or before the query offset.
AtOrBefore(s, K(_), q) == {i \in DOMAIN s : K(s[i]) <= q}

PageOffset(pg) == pg[1]

\* The page entries of the navigation data, in the order of the data.
RawPages ==
    Concat([i \in DOMAIN nav_data |->
               IF nav_data[i].typ = "$237"
               THEN PageEntries(nav_data[i].entries, PositionInfo) ELSE << >>])

\* C21: the page list built from the navigation data (or from the page
\* breaks of a flat buffer) is sorted by offset, and a query offset resolves
\* to the label of the last entry whose offset is <= the query, or to no
\* page when there is no such entry.
C21_PageResolution ==
    /\ Loaded => Ascending(nav_index.pages, PageOffset)
    /\ Resolved =>
          LET pgs  == nav_index.pages
              upto == AtOrBefore(pgs, PageOffset, nav_query)
          IN  nav_answer[1].page =
                  IF upto = {} THEN None ELSE Some(pgs[Max(upto)][2])

\* A query resolved to a page of a book whose page list came out of order
\* in the navigation data, with a later page beyond the query.
C21_Witness ==
    /\ npc = "resolved_kfx"
    /\ ~Ascending(RawPages, PageOffset)
    /\ nav_answer[1].page # None
    /\ \E i \in DOMAIN nav_index.pages : nav_index.pages[i][1] > nav_query
    /\ \E i \in DOMAIN nav_index.pages : nav_index.pages[i][1] < nav_query


NodePid(node) == node.pid

\* The last node of one level of the table of contents whose offset is at or
\* before the query: None, or the node.
LastNode(level, q) ==
    LET upto == AtOrBefore(level, NodePid, q)
    IN  IF upto = {} THEN None ELSE Some(level[Max(upto)])

\* The section and chapter labels that "last entry at or before the query"
\* names at both levels.
LastSectionChapter(toc, q) ==
    LET sec == LastNode(toc, q)
        ch  == IF sec = None THEN None ELSE LastNode(sec[1].children, q)
    IN  [section |-> IF sec = None THEN None ELSE Some(sec[1].label),
         chapter |-> IF ch = None THEN None ELSE Some(ch[1].label)]

\* C22: for every table of contents built from the navigation data, a query
\* offset resolves to the last top-level section whose offset is <= the
\* query and, within that section's children, to the last chapter whose
\* offset is <= the query; each is none when the query precedes every such
\* entry.
C22_Original ==
    npc = "resolved_kfx" =>
        LET want == LastSectionChapter(nav_index.toc, nav_query)
        IN  /\ nav_answer[1].section = want.section
            /\ nav_answer[1].chapter = want.chapter

\* Every level of the table of contents is in ascending order of offset.
OrderedToc(toc) ==
    /\ Ascending(toc, NodePid)
    /\ \A i \in DOMAIN toc : Ascending(toc[i].children, NodePid)

\* C22 on tables of contents whose levels are in ascending order of offset.
C22_OrderedToc ==
    (npc = "resolved_kfx" /\ OrderedToc(nav_index.toc)) =>
        LET want == LastSectionChapter(nav_index.toc, nav_query)
        IN  /\ nav_answer[1].section = want.section
            /\ nav_answer[1].chapter = want.chapter

\* An ordered table of contents of two sections, the query resolved to the
\* first section and to a chapter of it.
C22_OrderedWitness ==
    /\ npc = "resolved_kfx"
    /\ OrderedToc(nav_index.toc) /\ Len(nav_index.toc) = 2
    /\ nav_index.toc[1].pid < nav_index.toc[2].pid
    /\ nav_answer[1].section = Some(nav_index.toc[1].label)
    /\ nav_answer[1].chapter # None

---------------------------------------------------------------------------
(* Claims about the Position Codec (SpecCodec)                             *)

\* The offset field a position string's grammar names: the string itself
\* for a plain integer, the text after the colon for
\* "<opaque-prefix>:<offset>", the first field for
\* "<offset>:<spine>:<total-length>:<sync-blob>".
GrammarOffset(s) ==
    LET fields == SplitOn(s, ":", 0)
    IN  IF Len(fields) = 1 THEN s
        ELSE IF Len(fields) = 2 THEN fields[2]
        ELSE fields[1]

\* The number a decimal numeral denotes.
NumberOf(t) == CHOOSE n \in 0 .. (10 ^ Len(t) - 1) : str(n) = t

\* C23: each format's position parser returns the offset its grammar names
\* (the integer after the colon of "<opaque-prefix>:<offset>", a plain
\* integer itself, the first field of
\* "<offset>:<spine>:<total-length>:<sync-blob>"), a string of the grammar
\* always parses, and the offset written back out is that field exactly.
C23_RoundTrip ==
    /\ cpc \in {"parsed", "written"} =>
          pos_offset[1] = NumberOf(GrammarOffset(pos_given))
    /\ cpc = "written" => pos_location[1] = GrammarOffset(pos_given)
    /\ cpc = "raised" => pos_given \notin PositionStrings(pos_fmt)

\* The flat-buffer variant B parser has read a two-digit offset from a
\* position whose second field is another number, and it was written out.
C23_Witness ==
    /\ cpc = "written" /\ pos_fmt = "mobi"
    /\ LET fields == SplitOn(pos_given, ":", 0)
       IN  /\ Len(fields) = 4 /\ Len(fields[1]) = 2
           /\ fields[2] # fields[1]
           /\ pos_location[1] = fields[1]


----------------------------------------------------------------------------
(* Claims about the candidates of the Library Matcher (SpecMatch)          *)

\* The entries of one of the four lists that are about the book of key k.
EntriesOf(list, k) == {i \in DOMAIN list : list[i].stem = k}

\* How many entries the four lists have, all together, about the book k.
Appearances(k) ==
    LET l == matching[1].lists
    IN  Cardinality(EntriesOf(l.matched, k))
          + Cardinality(EntriesOf(l.matched_no_kfx, k))
          + Cardinality(EntriesOf(l.unmatched, k))
          + Cardinality(EntriesOf(l.no_yjr, k))

\* The statuses match_calibre_books takes as candidates in this run.
EligibleNow ==
    {"drm-flagged", "metadata-only"}
        \cup (IF args.all_books THEN {"success", "imported", "failed"} ELSE {})

\* C28: match_calibre_books partitions its candidates.  A book of the
\* registry whose status is eligible (drm-flagged or metadata-only; with
\* --all-books also success, imported, failed) has exactly one entry in the
\* four lists matched, matched_no_kfx, unmatched, no_yjr taken together; a
\* book whose status is not eligible has none, and no entry is about a key
\* that is not in the registry.  Stated where the call has just returned
\* (rpc = "report"), the registry it read still in memory.
C28_Partition ==
    (matching # None /\ rpc = "report") =>
        /\ \A k \in DOMAIN sync_state.books :
              Appearances(k) =
                  (IF sync_state.books[k].status[1] \in EligibleNow THEN 1 ELSE 0)
        /\ \A r \in MatchResults : r.stem \in DOMAIN sync_state.books

\* Two books in the registry, one eligible and one not (status success
\* without --all-books): the first is in one list, the second in none.
C28_Witness ==
    /\ matching # None /\ rpc = "report" /\ ~args.all_books
    /\ \E k \in DOMAIN sync_state.books, j \in DOMAIN sync_state.books :
          /\ sync_state.books[k].status = Some("success")
          /\ sync_state.books[j].status = Some("metadata-only")
          /\ Appearances(k) = 0 /\ Appearances(j) = 1
          /\ Len(matching[1].lists.no_yjr) = 1


----------------------------------------------------------------------------
(* Claims about the order of completion in a batch (SpecBatch)             *)

\* The books map the jobs = 1 loop of _run_extraction leaves after the
\* first n pairs of the batch, each with the outcome of its process_pair
\* call, starting from the map of BatchInit.
RECURSIVE SequentialBooks(_)
SequentialBooks(n) ==
    IF n = 0 THEN [s \in BatchStems |-> NoRecord]
    ELSE LET f   == futures[n]
             res == CallProcessPair(f.inp)
         IN  update_sync_record(SequentialBooks(n - 1), device, f.kfx, f.yjr,
                                OutcomeStatus(res.result), OutcomeError(res.result),
                                None, None, res.highlights, res.notes)

\* A books map without its timestamps.
WithoutTimes(books) == [s \in DOMAIN books |-> [books[s] EXCEPT !.last_attempt = None]]

\* The stems of the batch are pairwise distinct, as find_kindle_pairs
\* leaves them (seen_stems).
DistinctStems ==
    \A i \in DOMAIN futures, j \in DOMAIN futures :
        PathStem(futures[i].kfx) = PathStem(futures[j].kfx) => i = j

\* C29: for the same pairs and the same outcome of each process_pair call,
\* the registry at the end of _run_extraction is, timestamps apart, the one
\* the sequential loop leaves, with any number of workers and in whatever
\* order the futures complete; the stems of the pairs are pairwise distinct.
C29_OrderIndependent ==
    rpc = "summary" =>
        /\ DistinctStems
        /\ WithoutTimes(sync_state.books) = WithoutTimes(SequentialBooks(Len(futures)))

\* A parallel batch whose outcomes were recorded against the order of
\* submission: the third book failed and was recorded before the first,
\* which failed too; the second succeeded.
C29_Witness ==
    /\ rpc = "summary" /\ jobs > 1
    /\ failed = <<BatchOrder[3], BatchOrder[1]>>
    /\ sync_state.books[BatchOrder[2]].status = Some("success")
    /\ sync_state.books[BatchOrder[2]].highlights = Some(MaxCount)


----------------------------------------------------------------------------
(* Specification SpecOutput: the output files of a batch.  The             *)
(* process_pair calls of _run_extraction choose the name of their output   *)
(* file and write it, one after the other (one worker) or side by side     *)
(* (ProcessPoolExecutor)                                                   *)

MaxCalls == 2        \* process_pair calls of the batch

\* ext_map[fmt] of the default format.
OutputExt == ".highlights.html"

\* re.sub(r'[<>:"/\\|?*]', '_', book_title)
ForbiddenChars == {"<", ">", ":", "\"", "/", "\\", "|", "?", "*"}
ReplaceForbidden(t) ==
    [i \in 1 .. Len(t) |-> IF t[i] \in ForbiddenChars THEN "_" ELSE t[i]]

\* re.sub(r'\s+', ' ', safe_title)
RECURSIVE SkipSpace(_)
SkipSpace(t) ==
    IF t # << >> /\ t[1] \in WhiteSpace THEN SkipSpace(Tail(t)) ELSE t

RECURSIVE CollapseSpace(_)
CollapseSpace(t) ==
    IF t = << >> THEN << >>
    ELSE IF t[1] \in WhiteSpace THEN <<" ">> \o CollapseSpace(SkipSpace(t))
    ELSE <<t[1]>> \o CollapseSpace(Tail(t))

\* _format_azw3_output, the two substitutions and .strip().
safe_title(book_title) == Strip(CollapseSpace(ReplaceForbidden(book_title)))

\* The name _format_azw3_output probes: safe_title + ext first (counter 1
\* here), then f"{safe_title}-{counter}{ext}" from counter 2 on.
CollisionName(safe, counter) ==
    IF counter = 1 THEN safe \o <<OutputExt>>
    ELSE safe \o <<"-">> \o str(counter) \o <<OutputExt>>

\* extract_highlights_kfxlib.py: kfx_path.with_suffix(ext).name
KfxOutputName(stem) == <<stem, OutputExt>>

\* Titles of the books of a batch: two that differ and become the same
\* safe title, and one that becomes another.
OutputTitles ==
    {<<"A", ":", "B">>, <<"A", "/", "B">>, <<" ", "A", " ", " ", "B">>}

\* Files the output directory may hold from earlier runs.
EarlierNames ==
    {CollisionName(<<"A", "_", "B">>, 1), CollisionName(<<"A", "_", "B">>, 2),
     KfxOutputName(BatchOrder[1])}
EarlierRun == "earlier run"

OutputKinds == {"kfx", "flat"}

OutputInit ==
    /\ ExtractorIdle /\ LocatorIdle /\ RegistryIdle /\ NavIdle /\ CodecIdle
    /\ max_workers \in 1 .. MaxJobs
    /\ \E names \in SUBSET EarlierNames :
          output_dir = [n \in names |-> <<EarlierRun>>]
    /\ \E calls \in [1 .. MaxCalls ->
                        [kind : OutputKinds, title : OutputTitles, has_items : BOOLEAN]] :
          writers = [i \in 1 .. MaxCalls |->
                        [stem |-> BatchOrder[i], kind |-> calls[i].kind,
                         title |-> calls[i].title, has_items |-> calls[i].has_items,
                         pc |-> "queued", counter |-> 0, name |-> None]]

Exists(name) == name \in DOMAIN output_dir

InCall == {i \in DOMAIN writers : writers[i].pc \in {"probe", "open"}}

\* process_pair starts for the next pair: in _run_extraction's loop after
\* the call before it returned, in the pool when a worker is free.  A book
\* without annotations returns without an output file; the KFX extractor
\* takes the name of the book file, _format_azw3_output the safe title.
StartCall ==
    /\ Cardinality(InCall) < max_workers
    /\ \E i \in DOMAIN writers :
          /\ writers[i].pc = "queued"
          /\ \A j \in 1 .. (i - 1) : writers[j].pc # "queued"
          /\ writers' = [writers EXCEPT ![i] =
                IF ~writers[i].has_items THEN [@ EXCEPT !.pc = "done"]
                ELSE IF writers[i].kind = "kfx"
                THEN [@ EXCEPT !.pc = "open",
                               !.name = Some(KfxOutputName(writers[i].stem))]
                ELSE [@ EXCEPT !.pc = "probe", !.counter = 1]]
    /\ UNCHANGED <<output_dir, max_workers>>
    /\ OutputFrame

\* _format_azw3_output, one output_file.exists(): the name is taken and the
\* next counter is tried, or it is free and the loop ends.
ProbeExists ==
    /\ \E i \in DOMAIN writers :
          /\ writers[i].pc = "probe"
          /\ LET name == CollisionName(safe_title(writers[i].title), writers[i].counter)
             IN  writers' = [writers EXCEPT ![i] =
                     IF Exists(name) THEN [@ EXCEPT !.counter = @ + 1]
                     ELSE [@ EXCEPT !.pc = "open", !.name = Some(name)]]
    /\ UNCHANGED <<output_dir, max_workers>>
    /\ OutputFrame

\* open(output_file, "w") and the write: the file is created, or truncated
\* and written again when it is there.
WriteOutput ==
    /\ \E i \in DOMAIN writers :
          /\ writers[i].pc = "open"
          /\ LET name == writers[i].name[1]
                 before == IF Exists(name) THEN output_dir[name] ELSE << >>
             IN  output_dir' =
                     [n \in DOMAIN output_dir \cup {name} |->
                         IF n = name THEN Append(before, writers[i].stem)
                         ELSE output_dir[n]]
          /\ writers' = [writers EXCEPT ![i].pc = "done"]
    /\ UNCHANGED max_workers
    /\ OutputFrame

OutputNext == StartCall \/ ProbeExists \/ WriteOutput

SpecOutput == OutputInit /\ [][OutputNext]_vars


----------------------------------------------------------------------------
(* Claims about the output files (SpecOutput)                              *)

\* The calls of _format_azw3_output that have written their file.
Written ==
    {i \in DOMAIN writers :
        writers[i].kind = "flat" /\ writers[i].pc = "done" /\ writers[i].name # None}

\* Call i created its file: it is the first to have written under the name.
Created(i) == output_dir[writers[i].name[1]][1] = writers[i].stem

\* No two calls wrote under one name, and no call wrote over a file that
\* was there.
NoCollision ==
    /\ \A i \in Written, j \in Written :
          writers[i].name = writers[j].name => i = j
    /\ \A i \in Written : Created(i)

\* C30: two books of a batch whose titles become the same safe title are
\* written to two distinct files, and a file that exists is not written
\* over, with one worker and with several.
C30_Original == NoCollision

\* With one worker (the jobs = 1 loop, or a pool of one) the calls of
\* _format_azw3_output do not collide.
C30_OneWorker == max_workers = 1 => NoCollision

\* One worker, two books whose titles differ and become the same safe
\* title, the name already taken by an earlier run: the first book is
\* written under the name with -2, the second under the name with -3.
C30_SuffixWitness ==
    /\ max_workers = 1 /\ Written = {1, 2}
    /\ writers[1].title # writers[2].title
    /\ safe_title(writers[1].title) = safe_title(writers[2].title)
    /\ output_dir[CollisionName(<<"A", "_", "B">>, 1)] = <<EarlierRun>>
    /\ writers[1].name = Some(CollisionName(<<"A", "_", "B">>, 2))
    /\ writers[2].name = Some(CollisionName(<<"A", "_", "B">>, 3))

============================================================================
